---- MODULE Spec2Model ----
(***************************************************************************)
(* Proyecto Phoenix: the technical analysis engine (enrich_dataframe) and  *)
(* the trading signals engine (analyze_signals), modelled as state         *)
(* machines over abstract data frames.                                      *)
(*                                                                         *)
(* Floating point values are modelled by small integers (only their order  *)
(* against each other and against the thresholds 0, 30, 50 and 70 matters  *)
(* to the code) plus the value NaN, on which every comparison is false.    *)
(***************************************************************************)
EXTENDS Integers, Sequences, FiniteSets, TLC

VARIABLES
    window,          \* the enriched_df handed to analyze_signals
    signals_result,  \* outcome of the last analyze_signals call
    final_signal,    \* outcome of the last direct _determine_final_signal call
    log,             \* warnings logged by the last operation
    last_op,         \* the operation that ran last
    events,          \* per cycle of the growing series: the cycle's outcome
    params,          \* the periods TechnicalAnalysisEngine.__init__ loaded
    frames,          \* the data frames in memory, by object identity
    enriched_df,     \* enrich_dataframe's local: the frame it works on
    pc,              \* where enrich_dataframe stands
    steps,           \* the indicator computations that ran in this call
    lib,             \* what each indicator computation left in the frame
    enrich_result,   \* outcome of enrich_dataframe
    snapshot,        \* the caller's frame as it was when the call began
    engine_log,      \* warnings TechnicalAnalysisEngine logged in this call
    thread,          \* the pipeline invocation that is running
    suspended,       \* the locals of the invocation that is not running
    remembered,      \* an earlier cycle on the same engine objects, as it ended
    config,          \* the indicator entries of the configuration file
    fetch,           \* where fetch_ohlcv_data stands: attempt, requests, sleeps
    report           \* how far main's report of the analysis result got

signal_vars == <<window, signals_result, final_signal, log, last_op, events>>
enrich_vars ==
    <<params, frames, enriched_df, pc, steps, lib, enrich_result, snapshot, engine_log>>
cycle_vars == <<thread, suspended, remembered>>
pipeline_vars == <<config, fetch, report>>
vars == <<signal_vars, enrich_vars, cycle_vars, pipeline_vars>>

(***************************************************************************)
(* Values                                                                  *)
(***************************************************************************)

\* A null cell of a data frame (float NaN).
NaN == -1000

\* SignalType
BULLISH_SIGNAL == "BULLISH_SIGNAL"
BEARISH_SIGNAL == "BEARISH_SIGNAL"
NO_SIGNAL == "NO_SIGNAL"
SignalType == {BULLISH_SIGNAL, BEARISH_SIGNAL, NO_SIGNAL}

\* TradingSignalsEngine.required_columns
required_columns == {"close", "volume", "EMA21", "RSI14", "MACD_Histogram", "Volume_Avg20"}

\* IEEE comparisons: false as soon as one side is NaN.
Gt(a, b) == a /= NaN /\ b /= NaN /\ a > b
Lt(a, b) == a /= NaN /\ b /= NaN /\ a < b
Le(a, b) == a /= NaN /\ b /= NaN /\ a <= b

\* Python's chained comparison lo <= x <= hi
Between(lo, x, hi) == Le(lo, x) /\ Le(x, hi)

\* Mutant: one condition met is enough (any() for all()).
All_Any(conds) == \E k \in DOMAIN conds : conds[k]

\* Python's all() over the values of a condition dictionary
All(conds) == \A k \in DOMAIN conds : conds[k]

(***************************************************************************)
(* Input domains of the candles                                            *)
(***************************************************************************)
Closes == {1, 2}
Emas == {1, 2}
Rsis == {29, 30, 40, 50, 51, 70, 71, NaN}
Histograms == {-1, 0, 1, NaN}
Volumes == {1, 2}
VolumeAvgs == {1, 2}

Candles ==
    [close : Closes, volume : Volumes, EMA21 : Emas, RSI14 : Rsis,
     MACD_Histogram : Histograms, Volume_Avg20 : VolumeAvgs]

(***************************************************************************)
(* TradingSignalsEngine                                                    *)
(***************************************************************************)

\* The outcome of a call: a returned value, or the exception that reached the
\* caller together with the exception it was raised from (its __cause__).
Returned(value) ==
    [status |-> "returned", exception |-> "", cause |-> "", result |-> value]
Raised(exc, from) ==
    [status |-> "raised", exception |-> exc, cause |-> from, result |-> <<>>]
NotCalled ==
    [status |-> "none", exception |-> "", cause |-> "", result |-> <<>>]

\* Mutant: the previous candle is taken one row too early.
Previous_ThirdFromEnd(df) ==
    df.rows[IF Len(df.rows) >= 3 THEN Len(df.rows) - 2 ELSE 1]

\* Mutant: the previous candle is taken from the head of the window.
Previous_FirstRow(df) == df.rows[1]

\* df.iloc[-1] and df.iloc[-2]
Current(df) == df.rows[Len(df.rows)]
Previous(df) == df.rows[Len(df.rows) - 1]

\* df[required_columns].tail(2).isnull().sum().sum() > 0
NullInTail2(df) ==
    \E i \in 1..Len(df.rows) :
        /\ i > Len(df.rows) - 2
        /\ \E col \in required_columns : df.rows[i][col] = NaN

\* _validate_input_dataframe: the exception it raises, "" when it raises none.
TradingSignalsEngine_validate_input_dataframe(df) ==
    IF Len(df.rows) < 2 THEN "InsufficientDataError"
    ELSE IF required_columns \ df.columns /= {} THEN "AnalysisError"
    ELSE IF NullInTail2(df) THEN "AnalysisError"
    ELSE ""

\* Mutant: the bullish RSI band is open at 50.
BullishConditions_OpenAt50(candle) ==
    [price_above_ema |-> Gt(candle.close, candle.EMA21),
     rsi_in_range |-> Le(30, candle.RSI14) /\ Lt(candle.RSI14, 50),
     macd_histogram_positive |-> Gt(candle.MACD_Histogram, 0),
     volume_above_average |-> Gt(candle.volume, candle.Volume_Avg20)]

BullishConditions(candle) ==
    [price_above_ema |-> Gt(candle.close, candle.EMA21),
     rsi_in_range |-> Between(30, candle.RSI14, 50),
     macd_histogram_positive |-> Gt(candle.MACD_Histogram, 0),
     volume_above_average |-> Gt(candle.volume, candle.Volume_Avg20)]

\* Mutant: a zero histogram counts as negative.
BearishConditions_HistNonPositive(candle) ==
    [price_below_ema |-> Lt(candle.close, candle.EMA21),
     rsi_in_range |-> Between(50, candle.RSI14, 70),
     macd_histogram_negative |-> Le(candle.MACD_Histogram, 0),
     volume_above_average |-> Gt(candle.volume, candle.Volume_Avg20)]

BearishConditions(candle) ==
    [price_below_ema |-> Lt(candle.close, candle.EMA21),
     rsi_in_range |-> Between(50, candle.RSI14, 70),
     macd_histogram_negative |-> Lt(candle.MACD_Histogram, 0),
     volume_above_average |-> Gt(candle.volume, candle.Volume_Avg20)]

\* The 'current_values' / 'previous_values' entries of the analysis details.
CandleValues(candle) ==
    [close |-> candle.close, ema21 |-> candle.EMA21, rsi14 |-> candle.RSI14,
     macd_histogram |-> candle.MACD_Histogram, volume |-> candle.volume,
     volume_avg20 |-> candle.Volume_Avg20]

\* Mutant: the previous candle counts as unmet only when every condition is false.
AllPreviousUnmet_AllFalse(previous_conditions) ==
    \A k \in DOMAIN previous_conditions : ~previous_conditions[k]

\* all_previous_conditions_unmet = not all(previous_conditions.values())
AllPreviousUnmet(previous_conditions) == ~All(previous_conditions)

\* Mutant: the signal follows the state (conditions met now), not the transition.
AnalysisDetails_StateNotEvent(current_conditions, previous_conditions, current, previous) ==
    [signal_detected |-> All(current_conditions),
     current_conditions |-> current_conditions,
     previous_conditions |-> previous_conditions,
     all_current_met |-> All(current_conditions),
     all_previous_unmet |-> ~All(previous_conditions),
     transition_detected |-> All(current_conditions),
     current_values |-> CandleValues(current),
     previous_values |-> CandleValues(previous)]

\* The analysis_details dictionary both checks build.
AnalysisDetails(current_conditions, previous_conditions, current, previous) ==
    LET all_current_conditions_met == All(current_conditions)
        all_previous_conditions_unmet == AllPreviousUnmet(previous_conditions)
        signal_detected == all_current_conditions_met /\ all_previous_conditions_unmet
    IN  [signal_detected |-> signal_detected,
         current_conditions |-> current_conditions,
         previous_conditions |-> previous_conditions,
         all_current_met |-> all_current_conditions_met,
         all_previous_unmet |-> all_previous_conditions_unmet,
         transition_detected |-> all_current_conditions_met /\ all_previous_conditions_unmet,
         current_values |-> CandleValues(current),
         previous_values |-> CandleValues(previous)]

_check_bullish_signal(df) ==
    AnalysisDetails(BullishConditions(Current(df)), BullishConditions(Previous(df)),
                    Current(df), Previous(df))

_check_bearish_signal(df) ==
    AnalysisDetails(BearishConditions(Current(df)), BearishConditions(Previous(df)),
                    Current(df), Previous(df))

\* Mutant: the two directional branches are swapped.
_determine_final_signal_Swapped(bullish_signal, bearish_signal) ==
    IF bullish_signal /\ bearish_signal THEN NO_SIGNAL
    ELSE IF bullish_signal THEN BEARISH_SIGNAL
    ELSE IF bearish_signal THEN BULLISH_SIGNAL
    ELSE NO_SIGNAL

\* _determine_final_signal: the SignalType it returns.
_determine_final_signal(bullish_signal, bearish_signal) ==
    IF bullish_signal /\ bearish_signal THEN NO_SIGNAL
    ELSE IF bullish_signal THEN BULLISH_SIGNAL
    ELSE IF bearish_signal THEN BEARISH_SIGNAL
    ELSE NO_SIGNAL

\* Mutant: the conflict is resolved silently.
DetermineFinalSignalLog_Silent(bullish_signal, bearish_signal) == {}

\* _determine_final_signal: the warnings it logs.
DetermineFinalSignalLog(bullish_signal, bearish_signal) ==
    IF bullish_signal /\ bearish_signal THEN {"CONFLICTO"} ELSE {}

\* Mutant: a ratio of exactly 1.0 counts as HIGH.
RatioAboveOne_AtLeastOne(volume, volume_avg) ==
    IF volume = NaN \/ volume_avg = NaN THEN FALSE
    ELSE IF volume_avg > 0 THEN volume >= volume_avg
    ELSE IF volume_avg = 0 THEN volume > 0
    ELSE volume <= volume_avg

\* volume / Volume_Avg20 > 1.0 on float64 values: x / 0 is inf (or NaN for
\* 0 / 0) and raises nothing.
RatioAboveOne(volume, volume_avg) ==
    IF volume = NaN \/ volume_avg = NaN THEN FALSE
    ELSE IF volume_avg > 0 THEN volume > volume_avg
    ELSE IF volume_avg = 0 THEN volume > 0
    ELSE volume < volume_avg

\* Mutant: the bearish neutral zone is open at 50.
RsiZone_OpenAt50(rsi_value) ==
    IF Lt(rsi_value, 30) THEN "OVERSOLD"
    ELSE IF Gt(rsi_value, 70) THEN "OVERBOUGHT"
    ELSE IF Le(30, rsi_value) /\ Lt(rsi_value, 50) THEN "NEUTRAL_BEARISH"
    ELSE "NEUTRAL_BULLISH"

\* The if/elif chain categorising rsi_value.
RsiZone(rsi_value) ==
    IF Lt(rsi_value, 30) THEN "OVERSOLD"
    ELSE IF Gt(rsi_value, 70) THEN "OVERBOUGHT"
    ELSE IF Between(30, rsi_value, 50) THEN "NEUTRAL_BEARISH"
    ELSE "NEUTRAL_BULLISH"

_get_current_market_conditions(df) ==
    LET current_candle == Current(df)
    IN  [price_vs_ema |->
             IF Gt(current_candle.close, current_candle.EMA21) THEN "ABOVE" ELSE "BELOW",
         rsi_zone |-> RsiZone(current_candle.RSI14),
         rsi_value |-> current_candle.RSI14,
         macd_momentum |->
             IF Gt(current_candle.MACD_Histogram, 0) THEN "POSITIVE" ELSE "NEGATIVE",
         macd_histogram |-> current_candle.MACD_Histogram,
         volume_status |->
             IF RatioAboveOne(current_candle.volume, current_candle.Volume_Avg20)
             THEN "HIGH" ELSE "LOW",
         volume_ratio |-> <<current_candle.volume, current_candle.Volume_Avg20>>,
         current_price |-> current_candle.close,
         ema21_value |-> current_candle.EMA21]

\* analyze_signals: every exception raised inside its try block reaches the
\* caller as an AnalysisError raised from it.
analyze_signals(df) ==
    LET invalid == TradingSignalsEngine_validate_input_dataframe(df)
        bullish_details == _check_bullish_signal(df)
        bearish_details == _check_bearish_signal(df)
    IN  IF invalid /= "" THEN Raised("AnalysisError", invalid)
        ELSE Returned(
            [signal_type |-> _determine_final_signal(bullish_details.signal_detected,
                                                     bearish_details.signal_detected),
             timestamp |-> Len(df.rows),
             current_price |-> Current(df).close,
             bullish_analysis |-> bullish_details,
             bearish_analysis |-> bearish_details,
             market_conditions |-> _get_current_market_conditions(df)])

\* The warnings analyze_signals logs.
AnalyzeSignalsLog(df) ==
    IF TradingSignalsEngine_validate_input_dataframe(df) /= "" THEN {}
    ELSE DetermineFinalSignalLog(_check_bullish_signal(df).signal_detected,
                                 _check_bearish_signal(df).signal_detected)

\* The window before anything is analysed.
EmptyWindow == [columns |-> required_columns, rows |-> <<>>]

\* TradingSignalsEngine() constructed, nothing analysed yet.
InitSignals ==
    /\ window = EmptyWindow
    /\ signals_result = NotCalled
    /\ final_signal = [status |-> "none", signal_type |-> NO_SIGNAL, diagnostics |-> {}]
    /\ log = {}
    /\ last_op = "idle"
    /\ events = <<>>

(***************************************************************************)
(* ExchangeConnector                                                       *)
(*                                                                         *)
(* ccxt and the exchange are outside the repository: what a request        *)
(* answers is any of the responses below. Time is counted in units of six  *)
(* seconds, so that a tenth of every cadence is a whole number; sleeps are *)
(* counted in seconds.                                                     *)
(***************************************************************************)

\* A cell ccxt left empty (Python's None)
None == -2000

\* One row of ccxt's fetch_ohlcv: [timestamp, open, high, low, close, volume]
RawRow(t, o, h, l, c, v) ==
    [timestamp |-> t, open |-> o, high |-> h, low |-> l, close |-> c, volume |-> v]

\* astype(float): None becomes NaN
AsFloat(x) == IF x = None THEN NaN ELSE x

\* _convert_to_dataframe: the timestamps become the index, the five numeric
\* columns become floats
_convert_to_dataframe(ohlcv_data) ==
    [index |-> [i \in 1..Len(ohlcv_data) |-> ohlcv_data[i].timestamp],
     rows |-> [i \in 1..Len(ohlcv_data) |->
                 [open |-> AsFloat(ohlcv_data[i].open),
                  high |-> AsFloat(ohlcv_data[i].high),
                  low |-> AsFloat(ohlcv_data[i].low),
                  close |-> AsFloat(ohlcv_data[i].close),
                  volume |-> AsFloat(ohlcv_data[i].volume)]]]

\* Mutant: a timeframe the mapping lacks is given its own cadence.
_get_timeframe_delta_NoFallback(timeframe) ==
    CASE timeframe = "1h" -> 600
      [] timeframe = "2h" -> 1200
      [] timeframe = "3h" -> 1800
      [] OTHER -> 600

\* _get_timeframe_delta: timeframe_mapping.get(timeframe, timedelta(hours=1))
_get_timeframe_delta(timeframe) ==
    CASE timeframe = "1m" -> 10
      [] timeframe = "5m" -> 50
      [] timeframe = "15m" -> 150
      [] timeframe = "30m" -> 300
      [] timeframe = "1h" -> 600
      [] timeframe = "2h" -> 1200
      [] timeframe = "4h" -> 2400
      [] timeframe = "6h" -> 3600
      [] timeframe = "8h" -> 4800
      [] timeframe = "12h" -> 7200
      [] timeframe = "1d" -> 14400
      [] timeframe = "3d" -> 43200
      [] timeframe = "1w" -> 100800
      [] OTHER -> 600

Abs(x) == IF x < 0 THEN -x ELSE x

\* df.index.to_series().diff().dropna()
time_diffs(df) == [i \in 1..(Len(df.index) - 1) |-> df.index[i + 1] - df.index[i]]

PriceColumns == {"open", "high", "low", "close"}

\* abs(close - open) / open > 0.01 in floating point: a division of a
\* non-zero number by zero is infinite, a NaN compares false
SignificantMove(row) ==
    /\ row.open /= NaN /\ row.close /= NaN
    /\ \/ row.open > 0 /\ 100 * Abs(row.close - row.open) > row.open
       \/ row.open = 0 /\ row.close /= 0

\* (high < low) | (high < open) | (high < close) | (low > open) | (low > close)
IllogicalCandle(row) ==
    \/ Lt(row.high, row.low)
    \/ Lt(row.high, row.open)
    \/ Lt(row.high, row.close)
    \/ Gt(row.low, row.open)
    \/ Gt(row.low, row.close)

\* _validate_ohlcv_data: the validation errors it collects; it raises
\* DataValidationError when there is one and returns df when there is none
_validate_ohlcv_data(df, timeframe, expected_limit) ==
    LET n == Len(df.rows)
        expected_diff == _get_timeframe_delta(timeframe)
        tolerance == expected_diff \div 10
        diffs == time_diffs(df)
    IN  {e \in {"insufficient"} : 10 * n < 9 * expected_limit}
        \cup {e \in {"nulls"} :
                \E i \in 1..n : \E col \in DOMAIN df.rows[i] : df.rows[i][col] = NaN}
        \cup {e \in {"gaps"} :
                \E i \in DOMAIN diffs : Abs(diffs[i] - expected_diff) > tolerance}
        \cup {e \in {"prices"} :
                \E i \in 1..n : \E col \in PriceColumns : Le(df.rows[i][col], 0)}
        \cup {e \in {"ohlc"} : \E i \in 1..n : IllogicalCandle(df.rows[i])}
        \cup {e \in {"zero_volume"} :
                \E i \in 1..n : SignificantMove(df.rows[i]) /\ df.rows[i].volume = 0}

\* random.uniform(0, 1), at its two ends
Jitters == {0, 1}

RECURSIVE Pow2(_)
Pow2(n) == IF n = 0 THEN 1 ELSE 2 * Pow2(n - 1)

Min2(a, b) == IF a <= b THEN a ELSE b

\* Mutant: the wait is not capped.
_calculate_backoff_time_Uncapped(attempt, jitter) == Pow2(attempt) + jitter

\* _calculate_backoff_time: min(2 ** attempt + jitter, 60)
_calculate_backoff_time(attempt, jitter) == Min2(Pow2(attempt) + jitter, 60)

\* What a request to the exchange can end in: data, or one of the exceptions
\* fetch_ohlcv_data has a clause for (any other exception is "Exception").
CcxtErrors == {"RateLimitExceeded", "NetworkError", "ExchangeError", "Exception"}
DataResponse(ohlcv_data) == [kind |-> "data", data |-> ohlcv_data]
ErrorResponse(e) == [kind |-> e, data |-> <<>>]

\* What the try block of one attempt ends in: "ok", the ccxt exception, or
\* the DataValidationError of _validate_ohlcv_data.
AttemptOutcome(response, timeframe, limit) ==
    IF response.kind /= "data" THEN response.kind
    ELSE IF _validate_ohlcv_data(_convert_to_dataframe(response.data), timeframe, limit) = {}
         THEN "ok"
         ELSE "DataValidationError"

\* Mutant: an exchange error is retried like any other exception.
Retried_ExchangeErrorToo(outcome) ==
    outcome \in {"RateLimitExceeded", "NetworkError", "ExchangeError", "Exception",
                 "DataValidationError"}

\* The except clauses that sleep and continue while attempt < max_retries:
\* RateLimitExceeded, NetworkError and the final "except Exception", which is
\* the one DataValidationError falls into.
Retried(outcome) ==
    outcome \in {"RateLimitExceeded", "NetworkError", "Exception", "DataValidationError"}

\* The exception each except clause raises when it does not retry.
RaisedBy(outcome) ==
    IF outcome = "RateLimitExceeded" THEN "RateLimitError" ELSE "ExchangeConnectionError"

\* fetch_ohlcv_data not called.
IdleFetch ==
    [status |-> "idle", timeframe |-> "1h", limit |-> 0, max_retries |-> 0,
     attempt |-> 0, requests |-> 0, sleeps |-> <<>>, seen |-> {}, last |-> "none",
     result |-> NotCalled]

\* fetch_ohlcv_data(symbol, timeframe, limit, max_retries) entered: attempt 0
\* of range(max_retries + 1) is next.
FetchBegin(timeframe, limit, max_retries) ==
    /\ fetch.status = "idle"
    /\ fetch' = [IdleFetch EXCEPT !.status = "attempt", !.timeframe = timeframe,
                                  !.limit = limit, !.max_retries = max_retries]
    /\ UNCHANGED <<config, report>>

\* One pass of the for loop: the request, the conversion and validation of
\* what came back, and the except clause that handles what was raised,
\* with its sleep.
FetchAttempt(response, jitter) ==
    /\ fetch.status = "attempt"
    /\ LET outcome == AttemptOutcome(response, fetch.timeframe, fetch.limit)
           tried == [fetch EXCEPT !.requests = @ + 1, !.seen = @ \cup {outcome},
                                  !.last = outcome]
       IN  fetch' =
             IF outcome = "ok"
             THEN [tried EXCEPT !.status = "returned",
                                !.result = Returned(_convert_to_dataframe(response.data))]
             ELSE IF Retried(outcome) /\ fetch.attempt < fetch.max_retries
             THEN [tried EXCEPT !.attempt = @ + 1,
                                !.sleeps = Append(@, _calculate_backoff_time(fetch.attempt, jitter))]
             ELSE [tried EXCEPT !.status = "raised",
                                !.result = Raised(RaisedBy(outcome), outcome)]
    /\ UNCHANGED <<config, report>>

\* The caller has the result; the connector can be called again.
FetchEnd ==
    /\ fetch.status \in {"returned", "raised"}
    /\ fetch' = IdleFetch
    /\ UNCHANGED <<config, report>>

\* main has not reported anything.
NoReport == [status |-> "none", missing |-> {}, final |-> ""]

\* ConfigManager() has read the file; nothing fetched, nothing reported.
InitPipeline(file) ==
    /\ config = file
    /\ fetch = IdleFetch
    /\ report = NoReport

(***************************************************************************)
(* TechnicalAnalysisEngine                                                 *)
(*                                                                         *)
(* A data frame is its column set, the kind of its index, the order of the *)
(* index's timestamps, its number of rows, the columns holding a null, and *)
(* the columns with no valid value in the last 10 rows, and the columns    *)
(* holding a value outside [0, 100], and for each column a library call    *)
(* added the series of the library it holds. pandas-ta and pandas are outside the repository:   *)
(* what an indicator call leaves in the frame is any of the outcomes       *)
(* LibOutcomes.                                                             *)
(***************************************************************************)

OHLCV == {"open", "high", "low", "close", "volume"}

\* ConfigManager defaults
DefaultEmaPeriod == 21
DefaultRsiPeriod == 14
DefaultMacdFast == 12
DefaultMacdSlow == 26
DefaultMacdSignal == 9
DefaultVolumeAvgPeriod == 20

DefaultParams ==
    [ema_period |-> DefaultEmaPeriod, rsi_period |-> DefaultRsiPeriod,
     macd_fast |-> DefaultMacdFast, macd_slow |-> DefaultMacdSlow,
     macd_signal |-> DefaultMacdSignal, volume_avg_period |-> DefaultVolumeAvgPeriod]

\* One key of the [indicators] section of config.ini: absent, present with
\* text that is no integer, or present with an integer.
Missing == [kind |-> "missing", value |-> 0]
NotAnInteger == [kind |-> "text", value |-> 0]
IntEntry(n) == [kind |-> "int", value |-> n]

\* ConfigManager._get_config_int: what getint returns, and the default on
\* NoSectionError, NoOptionError or ValueError
_get_config_int(entry, default) ==
    IF entry.kind = "int" THEN entry.value ELSE default

get_ema_period(file) == _get_config_int(file.ema_period, DefaultEmaPeriod)
get_rsi_period(file) == _get_config_int(file.rsi_period, DefaultRsiPeriod)
get_macd_fast(file) == _get_config_int(file.macd_fast, DefaultMacdFast)
get_macd_slow(file) == _get_config_int(file.macd_slow, DefaultMacdSlow)
get_macd_signal(file) == _get_config_int(file.macd_signal, DefaultMacdSignal)
get_volume_avg_period(file) ==
    _get_config_int(file.volume_avg_period, DefaultVolumeAvgPeriod)

\* TechnicalAnalysisEngine.__init__: the six periods as the getters give them
TechnicalAnalysisEngine_init(file) ==
    [ema_period |-> get_ema_period(file), rsi_period |-> get_rsi_period(file),
     macd_fast |-> get_macd_fast(file), macd_slow |-> get_macd_slow(file),
     macd_signal |-> get_macd_signal(file),
     volume_avg_period |-> get_volume_avg_period(file)]

\* The configuration file that lists the periods p.
FileOf(p) == [k \in DOMAIN p |-> IntEntry(p[k])]

\* The configurations checked: the defaults (MACD needs the longest window),
\* one where the EMA does and one where the volume average does.
ParamChoices ==
    {DefaultParams,
     [DefaultParams EXCEPT !.ema_period = 38],
     [ema_period |-> 5, rsi_period |-> 3, macd_fast |-> 2, macd_slow |-> 4,
      macd_signal |-> 3, volume_avg_period |-> 9]}

\* Most rows of an input frame.
MaxRows == 49

Max2(a, b) == IF a >= b THEN a ELSE b

\* max(ema_period, rsi_period, macd_slow + macd_signal, volume_avg_period)
max_period(p) ==
    Max2(Max2(p.ema_period, p.rsi_period),
         Max2(p.macd_slow + p.macd_signal, p.volume_avg_period))

\* The safety margin of _validate_input_dataframe
SafetyMargin == 10

\* The timestamps of an index: strictly increasing, out of order, or in
\* order with one repeated.
IndexOrders == {"increasing", "unordered", "duplicates"}

Frame(columns, datetime_index, nrows, nulls) ==
    [columns |-> columns, datetime_index |-> datetime_index, nrows |-> nrows,
     nulls |-> nulls, nan_tail |-> {}, out_of_range |-> {},
     index_order |-> "increasing", holds |-> <<>>]

NoFrame == Frame({}, FALSE, 0, {})

\* The frames a caller hands to enrich_dataframe.
InputFrames ==
    {f \in [columns : SUBSET OHLCV, datetime_index : BOOLEAN, nrows : 0..MaxRows,
            nulls : SUBSET OHLCV, nan_tail : {{}}, out_of_range : {{}},
            index_order : IndexOrders, holds : {<<>>}] :
        /\ f.nulls \subseteq f.columns
        /\ f.nrows < 2 => f.index_order = "increasing"}

\* The caller's frame and the one df.copy() allocates.
CallerFrame == 1
CopiedFrame == 2

\* The pipeline invocations that can be in progress at once.
Threads == {0, 1}

\* Mutant: no copy is taken, the pipeline works on the caller's frame.
CopyTarget_Alias == CallerFrame

\* df.copy(): the identity of the frame the pipeline works on.
CopyTarget == CopiedFrame

\* Each invocation is handed a frame of its own by its caller.
CallerFrameOf(t) == CallerFrame + 2 * t

\* Mutant: the copy is kept in one buffer of the engine, whoever calls.
NewFrame_Shared(t) == CopyTarget

\* df.copy() allocates an object nothing else refers to.
NewFrame(t) == CopyTarget + 2 * t

\* The frames on the heap.
FrameIds == {CallerFrameOf(t) : t \in Threads} \cup {CopiedFrame + 2 * t : t \in Threads}

\* Mutant: the index's type is not checked.
TechnicalAnalysisEngine_validate_input_dataframe_NoIndexCheck(df, p) ==
    IF OHLCV \ df.columns /= {} THEN "AnalysisError"
    ELSE IF df.nrows < max_period(p) + SafetyMargin THEN "InsufficientDataError"
    ELSE IF df.nulls \cap OHLCV /= {} THEN "AnalysisError"
    ELSE ""

\* Mutant: the length is not checked.
TechnicalAnalysisEngine_validate_input_dataframe_NoLengthCheck(df, p) ==
    IF OHLCV \ df.columns /= {} THEN "AnalysisError"
    ELSE IF ~df.datetime_index THEN "AnalysisError"
    ELSE IF df.nulls \cap OHLCV /= {} THEN "AnalysisError"
    ELSE ""

\* Mutant: the null check is skipped.
TechnicalAnalysisEngine_validate_input_dataframe_NoNullCheck(df, p) ==
    IF OHLCV \ df.columns /= {} THEN "AnalysisError"
    ELSE IF ~df.datetime_index THEN "AnalysisError"
    ELSE IF df.nrows < max_period(p) + SafetyMargin THEN "InsufficientDataError"
    ELSE ""

\* _validate_input_dataframe: the exception it raises, "" when it raises none.
\* Nothing in it reads the order of the index's timestamps.
TechnicalAnalysisEngine_validate_input_dataframe(df, p) ==
    IF OHLCV \ df.columns /= {} THEN "AnalysisError"
    ELSE IF ~df.datetime_index THEN "AnalysisError"
    ELSE IF df.nrows < max_period(p) + SafetyMargin THEN "InsufficientDataError"
    ELSE IF df.nulls \cap OHLCV /= {} THEN "AnalysisError"
    ELSE ""

\* What a library call can leave for one column: no column, a column whose
\* last 10 rows are all NaN, or a column with valid values there.
LibOutcomes == {"missing", "nan", "ok"}

\* df.ta.rsi can besides leave a column with valid values in the last rows
\* and a value below 0 or above 100 somewhere: nothing in the repository
\* excludes it.
RsiOutcomes == LibOutcomes \cup {"out_of_range"}

\* append=True: the columns the call adds to the frame, in place.
AppendColumns(df, outcome) ==
    [df EXCEPT
        !.columns = @ \cup {c \in DOMAIN outcome : outcome[c] /= "missing"},
        !.nan_tail = @ \cup {c \in DOMAIN outcome : outcome[c] = "nan"},
        !.out_of_range = @ \cup {c \in DOMAIN outcome : outcome[c] = "out_of_range"},
        !.holds = [c \in DOMAIN @ \cup {x \in DOMAIN outcome : outcome[x] /= "missing"} |->
                      IF c \in DOMAIN outcome THEN c ELSE @[c]]]

\* df.rename(columns={old: new}, inplace=True)
Rename(df, old, new) ==
    IF old \notin df.columns THEN df
    ELSE [df EXCEPT
            !.columns = (@ \ {old}) \cup {new},
            !.nan_tail = IF old \in @ THEN (@ \ {old}) \cup {new} ELSE @,
            !.out_of_range = IF old \in @ THEN (@ \ {old}) \cup {new} ELSE @,
            !.holds = [c \in (DOMAIN @ \ {old}) \cup {new} |->
                          IF c = new THEN @[old] ELSE @[c]]]

\* _get_indicator_columns / expected_indicators
IndicatorColumns == {"EMA21", "RSI14", "MACD", "MACD_Signal", "MACD_Histogram", "Volume_Avg20"}

\* The order in which enrich_dataframe computes the indicators.
StepOrder == <<"ema", "rsi", "macd", "volume_average">>

NoLib == [k \in {} |-> "ok"]

\* TechnicalAnalysisEngine(config) constructed, nothing enriched yet.
InitEngine(p) ==
    /\ params = p
    /\ frames = [id \in FrameIds |-> NoFrame]
    /\ enriched_df = CallerFrame
    /\ pc = "idle"
    /\ steps = <<>>
    /\ lib = NoLib
    /\ enrich_result = NotCalled
    /\ snapshot = NoFrame
    /\ engine_log = {}

\* The locals of the running invocation: enrich_dataframe's and those of the
\* caller of the pipeline.
Locals ==
    [enriched_df |-> enriched_df, pc |-> pc, steps |-> steps, lib |-> lib,
     enrich_result |-> enrich_result, snapshot |-> snapshot, engine_log |-> engine_log,
     window |-> window, signals_result |-> signals_result, log |-> log,
     last_op |-> last_op]

\* The locals of invocation t before it begins.
IdleLocals(t) ==
    [enriched_df |-> CallerFrameOf(t), pc |-> "idle", steps |-> <<>>, lib |-> NoLib,
     enrich_result |-> NotCalled, snapshot |-> NoFrame, engine_log |-> {},
     window |-> EmptyWindow, signals_result |-> NotCalled, log |-> {},
     last_op |-> "idle"]

\* No cycle remembered yet.
NoCycle ==
    [ended |-> FALSE, input |-> NoFrame, lib |-> NoLib, enrich_result |-> NotCalled,
     output |-> NoFrame, window |-> EmptyWindow, signals_result |-> NotCalled]

\* One invocation about to run, the other not begun, no cycle behind.
InitCycles ==
    /\ thread = 0
    /\ suspended = IdleLocals(1)
    /\ remembered = NoCycle

\* raise AnalysisError(error_msg) from e, out of enrich_dataframe's try block
EnrichRaises(from) ==
    /\ pc' = "raised"
    /\ enrich_result' = Raised("AnalysisError", from)

\* enrich_dataframe(df) begins: df.copy()
EnrichBegin(df) ==
    /\ frames' = [frames EXCEPT ![CallerFrameOf(thread)] = df, ![NewFrame(thread)] = df]
    /\ snapshot' = df
    /\ enriched_df' = NewFrame(thread)
    /\ pc' = "validate"
    /\ steps' = <<>>
    /\ lib' = NoLib
    /\ enrich_result' = NotCalled
    /\ engine_log' = {}
    /\ UNCHANGED params

\* Mutant: when the data do not suffice the engine shortens its MACD window
\* for the calls to come.
EnrichValidate_AdaptsPeriods ==
    /\ pc = "validate"
    /\ LET invalid ==
               TechnicalAnalysisEngine_validate_input_dataframe(frames[enriched_df], params)
       IN  IF invalid /= ""
           THEN /\ EnrichRaises(invalid)
                /\ params' = IF invalid = "InsufficientDataError"
                              THEN [params EXCEPT !.macd_slow = @ - 1] ELSE params
           ELSE pc' = "ema" /\ UNCHANGED <<enrich_result, params>>
    /\ UNCHANGED <<frames, enriched_df, steps, lib, snapshot, engine_log>>

\* self._validate_input_dataframe(df.copy())
EnrichValidate ==
    /\ pc = "validate"
    /\ LET invalid ==
               TechnicalAnalysisEngine_validate_input_dataframe(frames[enriched_df], params)
       IN  IF invalid /= "" THEN EnrichRaises(invalid)
           ELSE pc' = "ema" /\ UNCHANGED enrich_result
    /\ UNCHANGED <<params, frames, enriched_df, steps, lib, snapshot, engine_log>>

\* Mutant: the line and the signal columns get each other's name.
RenameColumns_LineSignalSwapped(step, df) ==
    CASE step = "ema" -> Rename(df, "EMA_n", "EMA21")
      [] step = "rsi" -> Rename(df, "RSI_n", "RSI14")
      [] step = "macd" ->
            Rename(Rename(Rename(df, "MACD_f_s_g", "MACD_Signal"), "MACDs_f_s_g", "MACD"),
                   "MACDh_f_s_g", "MACD_Histogram")

\* The renaming each indicator step ends with.
RenameColumns(step, df) ==
    CASE step = "ema" -> Rename(df, "EMA_n", "EMA21")
      [] step = "rsi" -> Rename(df, "RSI_n", "RSI14")
      [] step = "macd" ->
            Rename(Rename(Rename(df, "MACD_f_s_g", "MACD"), "MACDs_f_s_g", "MACD_Signal"),
                   "MACDh_f_s_g", "MACD_Histogram")

\* One indicator step: the library call appends its columns to the frame in
\* place; a column not created raises, otherwise the columns are renamed.
IndicatorStep(step, outcome, next_pc) ==
    /\ pc = step
    /\ steps' = Append(steps, step)
    /\ lib' = outcome @@ lib
    /\ LET appended == AppendColumns(frames[enriched_df], outcome)
           missing == {c \in DOMAIN outcome : c \notin appended.columns}
       IN  IF missing /= {}
           THEN /\ frames' = [frames EXCEPT ![enriched_df] = appended]
                /\ EnrichRaises("AnalysisError")
           ELSE /\ frames' = [frames EXCEPT ![enriched_df] = RenameColumns(step, appended)]
                /\ pc' = next_pc
                /\ UNCHANGED enrich_result
    /\ UNCHANGED <<params, enriched_df, snapshot, engine_log>>

\* _calculate_ema
CalculateEma(outcome) == IndicatorStep("ema", outcome, "rsi")

\* _calculate_rsi
CalculateRsi(outcome) == IndicatorStep("rsi", outcome, "macd")

\* _calculate_macd
CalculateMacd(outcome) == IndicatorStep("macd", outcome, "volume_average")

\* _calculate_volume_average: the rolling mean is assigned to the frame; it
\* has nrows - period + 1 valid values, the last rows among them.
CalculateVolumeAverage ==
    /\ pc = "volume_average"
    /\ steps' = Append(steps, "volume_average")
    /\ LET df == frames[enriched_df]
           valid_values ==
               IF df.nrows >= params.volume_avg_period
               THEN df.nrows - params.volume_avg_period + 1 ELSE 0
           outcome == [c \in {"Volume_Avg20"} |-> IF valid_values = 0 THEN "nan" ELSE "ok"]
       IN  /\ lib' = outcome @@ lib
           /\ frames' = [frames EXCEPT ![enriched_df] = AppendColumns(df, outcome)]
           /\ IF valid_values = 0 THEN EnrichRaises("AnalysisError")
              ELSE pc' = "validate_indicators" /\ UNCHANGED enrich_result
    /\ UNCHANGED <<params, enriched_df, snapshot, engine_log>>

\* Mutant: only the presence of the indicator columns is checked.
_validate_indicators_ColumnsOnly(df) ==
    IF IndicatorColumns \ df.columns /= {} THEN "AnalysisError" ELSE ""

\* _validate_indicators: the exception it raises, "" when it raises none.
\* tail(10) of an indicator with no valid value raises.
_validate_indicators(df) ==
    IF IndicatorColumns \ df.columns /= {} THEN "AnalysisError"
    ELSE IF IndicatorColumns \cap df.nan_tail /= {} THEN "AnalysisError"
    ELSE ""

\* Mutant: RSI values out of range go unnoticed.
_validate_rsi_range_Silent(df) == {}

\* _validate_rsi_range: the warnings it logs; it raises nothing and assigns
\* nothing to the frame.
_validate_rsi_range(df) ==
    IF "RSI14" \in df.out_of_range THEN {"Valores RSI fuera de rango"} ELSE {}

\* self._validate_indicators(enriched_df), which ends with
\* self._validate_rsi_range(df), then return enriched_df
EnrichValidateIndicators ==
    /\ pc = "validate_indicators"
    /\ LET invalid == _validate_indicators(frames[enriched_df])
       IN  IF invalid /= "" THEN EnrichRaises(invalid) /\ UNCHANGED engine_log
           ELSE /\ engine_log' = engine_log \cup _validate_rsi_range(frames[enriched_df])
                /\ pc' = "returned"
                /\ enrich_result' = Returned(enriched_df)
    /\ UNCHANGED <<params, frames, enriched_df, steps, lib, snapshot>>

OneColumn(name) == [{name} -> LibOutcomes]

NextEnrich ==
    \/ pc = "idle" /\ \E df \in InputFrames : EnrichBegin(df) /\ UNCHANGED <<signal_vars, cycle_vars, pipeline_vars>>
    \/ EnrichValidate /\ UNCHANGED <<signal_vars, cycle_vars, pipeline_vars>>
    \/ \E outcome \in OneColumn("EMA_n") : CalculateEma(outcome) /\ UNCHANGED <<signal_vars, cycle_vars, pipeline_vars>>
    \/ \E outcome \in [{"RSI_n"} -> RsiOutcomes] : CalculateRsi(outcome) /\ UNCHANGED <<signal_vars, cycle_vars, pipeline_vars>>
    \/ \E outcome \in [{"MACD_f_s_g", "MACDh_f_s_g", "MACDs_f_s_g"} -> LibOutcomes] :
           CalculateMacd(outcome) /\ UNCHANGED <<signal_vars, cycle_vars, pipeline_vars>>
    \/ CalculateVolumeAverage /\ UNCHANGED <<signal_vars, cycle_vars, pipeline_vars>>
    \/ EnrichValidateIndicators /\ UNCHANGED <<signal_vars, cycle_vars, pipeline_vars>>

InitEnrich ==
    /\ InitSignals
    /\ \E p \in ParamChoices : InitEngine(p) /\ InitPipeline(FileOf(p))
    /\ InitCycles

SpecEnrich == InitEnrich /\ [][NextEnrich]_vars

(***************************************************************************)
(* One analysis of a window (Spec)                                         *)
(***************************************************************************)

\* The windows a caller hands to analyze_signals: any two candles, shorter
\* windows, and windows lacking one required column.
Windows ==
    {[columns |-> required_columns, rows |-> <<p, c>>] : p \in Candles, c \in Candles}
    \cup {[columns |-> required_columns, rows |-> <<c>>] : c \in Candles}
    \cup {[columns |-> required_columns \ {col}, rows |-> <<c, c>>] :
            col \in required_columns, c \in {x \in Candles : x.RSI14 = 50}}

Init ==
    /\ InitSignals
    /\ InitEngine(DefaultParams)
    /\ InitCycles
    /\ InitPipeline(FileOf(DefaultParams))

\* The caller runs analyze_signals(df).
AnalyzeSignals(df) ==
    /\ window' = df
    /\ signals_result' = analyze_signals(df)
    /\ log' = AnalyzeSignalsLog(df)
    /\ last_op' = "analyze_signals"
    /\ UNCHANGED <<final_signal, events>>
    /\ UNCHANGED <<enrich_vars, cycle_vars, pipeline_vars>>

\* A direct call of _determine_final_signal(bullish_signal, bearish_signal):
\* it returns a bare SignalType, with nothing attached to it.
DetermineFinalSignal(bullish_signal, bearish_signal) ==
    /\ final_signal' =
           [status |-> "returned",
            signal_type |-> _determine_final_signal(bullish_signal, bearish_signal),
            diagnostics |-> {}]
    /\ log' = DetermineFinalSignalLog(bullish_signal, bearish_signal)
    /\ last_op' = "_determine_final_signal"
    /\ window' = [columns |-> {}, rows |-> <<bullish_signal, bearish_signal>>]
    /\ UNCHANGED <<signals_result, events>>
    /\ UNCHANGED <<enrich_vars, cycle_vars, pipeline_vars>>

\* The caller is done with the result: nothing of the call survives it.
Discard ==
    /\ last_op /= "idle"
    /\ window' = EmptyWindow
    /\ signals_result' = NotCalled
    /\ final_signal' = [status |-> "none", signal_type |-> NO_SIGNAL, diagnostics |-> {}]
    /\ log' = {}
    /\ last_op' = "idle"
    /\ UNCHANGED events
    /\ UNCHANGED <<enrich_vars, cycle_vars, pipeline_vars>>

\* The caller makes one call at a time.
Next ==
    \/ last_op = "idle" /\ \E df \in Windows : AnalyzeSignals(df)
    \/ last_op = "idle" /\ \E b \in BOOLEAN, s \in BOOLEAN : DetermineFinalSignal(b, s)
    \/ Discard

Spec == Init /\ [][Next]_vars

(***************************************************************************)
(* One cycle per candle of a growing series (SpecSeries)                   *)
(***************************************************************************)

\* Longest series.
MaxSeriesLen == 6

\* The candles the series grows by: bullish set met, bearish set met, one
\* condition unmet, and an indicator still absent.
SeriesCandles ==
    {c \in Candles :
        /\ c.volume = 2 /\ c.Volume_Avg20 = 1 /\ c.RSI14 = 50
        /\ c.EMA21 /= NaN /\ c.EMA21 /= c.close
        /\ c.MACD_Histogram /= 0}

\* What a cycle leaves: the signal_type, or "raised".
CycleEvent(outcome) ==
    IF outcome.status = "returned" THEN outcome.result.signal_type ELSE "raised"

\* A new candle closes and the caller runs analyze_signals on the window
\* ending at it.
SeriesCycle(c) ==
    /\ Len(window.rows) < MaxSeriesLen
    /\ window' = [window EXCEPT !.rows = Append(@, c)]
    /\ signals_result' = analyze_signals(window')
    /\ log' = AnalyzeSignalsLog(window')
    /\ last_op' = "analyze_signals"
    /\ events' = Append(events, CycleEvent(signals_result'))
    /\ UNCHANGED final_signal
    /\ UNCHANGED <<enrich_vars, cycle_vars, pipeline_vars>>

NextSeries == \E c \in SeriesCandles : SeriesCycle(c)

SpecSeries == Init /\ [][NextSeries]_vars

(***************************************************************************)
(* Cycles of the pipeline on the same engine objects (SpecCycles)          *)
(*                                                                         *)
(* A cycle is main's sequence: enrich_dataframe on the fetched frame, then *)
(* analyze_signals on the frame it returned. The engine objects outlive    *)
(* the cycle, its locals do not.                                            *)
(***************************************************************************)

\* The frames the cycles are run on: one row short of the minimum, the
\* minimum, and the minimum with a null close.
CycleFrames ==
    {Frame(OHLCV, TRUE, max_period(DefaultParams) + SafetyMargin - 1, {}),
     Frame(OHLCV, TRUE, max_period(DefaultParams) + SafetyMargin, {}),
     Frame(OHLCV, TRUE, max_period(DefaultParams) + SafetyMargin, {"close"})}

\* The last rows of the enriched frame, as the library computed them: the
\* last two, or the last three.
CycleRows ==
    {<<p, c>> : p \in SeriesCandles, c \in SeriesCandles}
    \cup {<<e, p, c>> : e \in {x \in SeriesCandles : x.MACD_Histogram /= NaN},
                        p \in SeriesCandles, c \in SeriesCandles}

\* Mutant: an exception of enrich_dataframe is swallowed and the analysis
\* goes on with the frame as the failed call left it.
EnrichmentCompleted_IgnoringErrors == pc \in {"returned", "raised"}

\* main reaches analyze_signals(enriched_df) only when enrich_dataframe
\* returned: an exception leaves the try block.
EnrichmentCompleted == pc = "returned"

\* enriched_df as analyze_signals sees it: its columns and its last rows.
TailWindow(df, rows) == [columns |-> df.columns, rows |-> rows]

\* signals_result = signals_engine.analyze_signals(enriched_df)
CycleAnalyze(rows) == AnalyzeSignals(TailWindow(frames[enriched_df], rows))

\* The cycle is over: an exception reached main, or the analysis ran.
CycleEnded == pc = "raised" \/ last_op = "analyze_signals"

\* The cycle as it ended.
ThisCycle ==
    [ended |-> TRUE, input |-> snapshot, lib |-> lib, enrich_result |-> enrich_result,
     output |-> frames[enriched_df], window |-> window,
     signals_result |-> signals_result]

\* The cycle's locals go out of scope; the engine objects stay. The cycle is
\* remembered, or not, for comparison with a later one.
CycleEnd(keep) ==
    /\ remembered' = IF keep /\ ~remembered.ended THEN ThisCycle ELSE remembered
    /\ frames' = [frames EXCEPT ![CallerFrameOf(thread)] = NoFrame,
                                ![NewFrame(thread)] = NoFrame]
    /\ enriched_df' = IdleLocals(thread).enriched_df
    /\ pc' = "idle"
    /\ steps' = <<>>
    /\ lib' = NoLib
    /\ enrich_result' = NotCalled
    /\ snapshot' = NoFrame
    /\ engine_log' = {}
    /\ window' = EmptyWindow
    /\ signals_result' = NotCalled
    /\ log' = {}
    /\ last_op' = "idle"
    /\ UNCHANGED <<params, final_signal, events, thread, suspended, pipeline_vars>>

MacdColumns == {"MACD_f_s_g", "MACDh_f_s_g", "MACDs_f_s_g"}

NextCycles ==
    \/ pc = "idle" /\ \E df \in CycleFrames :
           EnrichBegin(df) /\ UNCHANGED <<signal_vars, cycle_vars, pipeline_vars>>
    \/ EnrichValidate /\ UNCHANGED <<signal_vars, cycle_vars, pipeline_vars>>
    \/ \E outcome \in OneColumn("EMA_n") :
           CalculateEma(outcome) /\ UNCHANGED <<signal_vars, cycle_vars, pipeline_vars>>
    \/ \E outcome \in [{"RSI_n"} -> RsiOutcomes] :
           CalculateRsi(outcome) /\ UNCHANGED <<signal_vars, cycle_vars, pipeline_vars>>
    \/ \E outcome \in [MacdColumns -> LibOutcomes] :
           CalculateMacd(outcome) /\ UNCHANGED <<signal_vars, cycle_vars, pipeline_vars>>
    \/ CalculateVolumeAverage /\ UNCHANGED <<signal_vars, cycle_vars, pipeline_vars>>
    \/ EnrichValidateIndicators /\ UNCHANGED <<signal_vars, cycle_vars, pipeline_vars>>
    \/ EnrichmentCompleted /\ last_op = "idle" /\ \E rows \in CycleRows : CycleAnalyze(rows)
    \/ CycleEnded /\ \E keep \in BOOLEAN : CycleEnd(keep)

SpecCycles == Init /\ [][NextCycles]_vars

(***************************************************************************)
(* Two invocations of the pipeline, interleaved (SpecConcurrent)           *)
(*                                                                         *)
(* Both use the same engine objects. Each has its locals and the frame its *)
(* caller handed it; the heap and the engines are shared. The scheduler    *)
(* may switch between any two steps.                                        *)
(***************************************************************************)

\* The frames of the two callers: too short, the minimum, one row more.
ConcurrentFrames ==
    {Frame(OHLCV, TRUE, max_period(DefaultParams) + SafetyMargin - 1, {}),
     Frame(OHLCV, TRUE, max_period(DefaultParams) + SafetyMargin, {}),
     Frame(OHLCV, TRUE, max_period(DefaultParams) + SafetyMargin + 1, {})}

\* The last two rows of an enriched frame: each with the bullish or the
\* bearish set met.
ConcurrentRows ==
    LET met == {x \in SeriesCandles :
                   All(BullishConditions(x)) \/ All(BearishConditions(x))}
    IN  {<<p, c>> : p \in met, c \in met}

\* The three MACD columns come out alike.
MacdOutcomesAlike == {[c \in MacdColumns |-> o] : o \in LibOutcomes}

\* The scheduler runs the other invocation: the locals are exchanged, the
\* heap and the engines stay.
Switch ==
    /\ thread' = 1 - thread
    /\ suspended' = Locals
    /\ enriched_df' = suspended.enriched_df
    /\ pc' = suspended.pc
    /\ steps' = suspended.steps
    /\ lib' = suspended.lib
    /\ enrich_result' = suspended.enrich_result
    /\ snapshot' = suspended.snapshot
    /\ engine_log' = suspended.engine_log
    /\ window' = suspended.window
    /\ signals_result' = suspended.signals_result
    /\ log' = suspended.log
    /\ last_op' = suspended.last_op
    /\ UNCHANGED <<params, frames, final_signal, events, remembered, pipeline_vars>>

NextConcurrent ==
    \/ pc = "idle" /\ \E df \in ConcurrentFrames :
           EnrichBegin(df) /\ UNCHANGED <<signal_vars, cycle_vars, pipeline_vars>>
    \/ EnrichValidate /\ UNCHANGED <<signal_vars, cycle_vars, pipeline_vars>>
    \/ \E outcome \in OneColumn("EMA_n") :
           CalculateEma(outcome) /\ UNCHANGED <<signal_vars, cycle_vars, pipeline_vars>>
    \/ \E outcome \in [{"RSI_n"} -> RsiOutcomes] :
           CalculateRsi(outcome) /\ UNCHANGED <<signal_vars, cycle_vars, pipeline_vars>>
    \/ \E outcome \in MacdOutcomesAlike :
           CalculateMacd(outcome) /\ UNCHANGED <<signal_vars, cycle_vars, pipeline_vars>>
    \/ CalculateVolumeAverage /\ UNCHANGED <<signal_vars, cycle_vars, pipeline_vars>>
    \/ EnrichValidateIndicators /\ UNCHANGED <<signal_vars, cycle_vars, pipeline_vars>>
    \/ EnrichmentCompleted /\ last_op = "idle"
           /\ \E rows \in ConcurrentRows : CycleAnalyze(rows)
    \/ Switch

SpecConcurrent == Init /\ [][NextConcurrent]_vars

(***************************************************************************)
(* The engine built from any configuration file (SpecConfig)               *)
(***************************************************************************)

ConfigKeys ==
    {"ema_period", "rsi_period", "macd_fast", "macd_slow", "macd_signal",
     "volume_avg_period"}

\* What a key of the file can hold: nothing, text, and integers of either
\* sign (13 for macd_fast and macd_slow makes them equal).
ConfigEntries == {Missing, NotAnInteger, IntEntry(-3), IntEntry(0), IntEntry(13)}

ConfigFiles == [ConfigKeys -> ConfigEntries]

\* The frames handed to the engine: the minimum length its periods ask for,
\* and one row fewer.
ConfigFrames(p) ==
    {Frame(OHLCV, TRUE, max_period(p) + SafetyMargin - 1, {}),
     Frame(OHLCV, TRUE, max_period(p) + SafetyMargin, {})}

\* ConfigManager() reads the file and TechnicalAnalysisEngine(config) is built.
InitConfig ==
    /\ InitSignals
    /\ InitCycles
    /\ \E file \in ConfigFiles :
           InitEngine(TechnicalAnalysisEngine_init(file)) /\ InitPipeline(file)

NextConfig ==
    \/ pc = "idle" /\ \E df \in ConfigFrames(params) :
           EnrichBegin(df) /\ UNCHANGED <<signal_vars, cycle_vars, pipeline_vars>>
    \/ EnrichValidate /\ UNCHANGED <<signal_vars, cycle_vars, pipeline_vars>>

SpecConfig == InitConfig /\ [][NextConfig]_vars

(***************************************************************************)
(* One request and its validation, on any series (SpecCandles)             *)
(***************************************************************************)

\* The timeframes requested: two the connector's mapping has and one it
\* lacks.
Timeframes == {"1h", "2h", "3h"}

\* The limits requested.
Limits == {0, 1, 2}

\* Most rows of a series the exchange answers with.
MaxCandles == 3

\* A candle that passes every check.
GoodCandle == RawRow(0, 1, 2, 1, 2, 1)

\* The rows the exchange can send: every combination of a zero and two
\* positive prices with a zero or positive volume, and the good candle with
\* one cell empty.
RawCandles ==
    {RawRow(0, o, h, l, c, v) : o \in 0..2, h \in 0..2, l \in 0..2, c \in 0..2, v \in 0..1}
    \cup {[GoodCandle EXCEPT ![col] = None] :
            col \in {"open", "high", "low", "close", "volume"}}

\* The distances between two timestamps: backwards, none, and around one,
\* two and three hours.
Gaps == {-600, 0, 539, 540, 600, 660, 661, 1079, 1080, 1200, 1320, 1321, 1800}

At(row, t) == [row EXCEPT !.timestamp = t]

\* A run of good candles after the timestamp t, one per gap.
RECURSIVE GoodRun(_, _)
GoodRun(t, gaps) ==
    IF gaps = <<>> THEN <<>>
    ELSE <<At(GoodCandle, t + Head(gaps))>> \o GoodRun(t + Head(gaps), Tail(gaps))

\* What the exchange answers with: nothing, one row, two rows of which one
\* is any row, and good candles at any distances.
ExchangeSeries ==
    {<<>>}
    \cup {<<r>> : r \in RawCandles}
    \cup {<<r, At(GoodCandle, g)>> : r \in RawCandles, g \in Gaps}
    \cup {<<GoodCandle, At(r, g)>> : r \in RawCandles, g \in Gaps}
    \cup {<<GoodCandle>> \o GoodRun(0, gaps) : gaps \in [1..(MaxCandles - 1) -> Gaps]}

NextCandles ==
    \/ fetch.status = "idle" /\ \E timeframe \in Timeframes, limit \in Limits :
           FetchBegin(timeframe, limit, 0)
           /\ UNCHANGED <<signal_vars, enrich_vars, cycle_vars>>
    \/ fetch.status = "attempt" /\ \E ohlcv_data \in ExchangeSeries :
           FetchAttempt(DataResponse(ohlcv_data), 0)
           /\ UNCHANGED <<signal_vars, enrich_vars, cycle_vars>>

SpecCandles == Init /\ [][NextCandles]_vars

(***************************************************************************)
(* The retry loop of fetch_ohlcv_data (SpecFetch)                          *)
(***************************************************************************)

\* Largest max_retries a caller passes.
MaxRetries == 7

\* Two candles one hour apart, and two candles two hours apart.
RegularSeries == <<GoodCandle, At(GoodCandle, 600)>>
IrregularSeries == <<GoodCandle, At(GoodCandle, 1200)>>

FetchResponses ==
    {ErrorResponse(e) : e \in CcxtErrors}
    \cup {DataResponse(RegularSeries), DataResponse(IrregularSeries)}

\* A pass of the loop with whatever the exchange answers.
FetchStep ==
    /\ fetch.status = "attempt"
    /\ \E response \in FetchResponses, jitter \in Jitters : FetchAttempt(response, jitter)
    /\ UNCHANGED <<signal_vars, enrich_vars, cycle_vars>>

NextFetch ==
    \/ fetch.status = "idle" /\ \E max_retries \in 0..MaxRetries :
           FetchBegin("1h", 2, max_retries)
           /\ UNCHANGED <<signal_vars, enrich_vars, cycle_vars>>
    \/ FetchStep
    \/ FetchEnd /\ UNCHANGED <<signal_vars, enrich_vars, cycle_vars>>

\* The loop body is ordinary sequential code: a pass that can run does run
\* (every request ends, ccxt's timeout being 30 seconds).
SpecFetch == Init /\ [][NextFetch]_vars /\ WF_vars(FetchStep)

(***************************************************************************)
(* main's report of the analysis result (SpecMain)                         *)
(*                                                                         *)
(* A read of the result is the path of dictionary keys it follows.         *)
(***************************************************************************)

\* get_signal_explanation: the keys it reads
ExplanationReads(signal_type) ==
    <<<<"signal_type">>, <<"market_conditions">>,
      <<"market_conditions", "current_price">>, <<"market_conditions", "ema21_value">>>>
    \o (IF signal_type = NO_SIGNAL THEN <<<<"market_conditions", "price_vs_ema">>>>
        ELSE <<>>)
    \o <<<<"market_conditions", "rsi_value">>, <<"market_conditions", "rsi_zone">>,
         <<"market_conditions", "macd_momentum">>,
         <<"market_conditions", "macd_histogram">>,
         <<"market_conditions", "volume_status">>,
         <<"market_conditions", "volume_ratio">>>>

\* main, "DETALLES TÉCNICOS DEL ANÁLISIS": the conditions of the detected
\* polarity, or of both when there is no signal
DetailReads(signal_type) ==
    IF signal_type = BULLISH_SIGNAL
    THEN <<<<"bullish_analysis">>, <<"bullish_analysis", "current_conditions">>>>
    ELSE IF signal_type = BEARISH_SIGNAL
    THEN <<<<"bearish_analysis">>, <<"bearish_analysis", "current_conditions">>>>
    ELSE <<<<"bullish_analysis">>, <<"bullish_analysis", "current_conditions">>,
           <<"bearish_analysis">>, <<"bearish_analysis", "current_conditions">>>>

\* main, "VALORES DE INDICADORES EN VELA ACTUAL"
MarketReads ==
    <<<<"market_conditions">>, <<"timestamp">>,
      <<"market_conditions", "current_price">>, <<"market_conditions", "ema21_value">>,
      <<"market_conditions", "price_vs_ema">>, <<"market_conditions", "rsi_value">>,
      <<"market_conditions", "rsi_zone">>, <<"market_conditions", "macd_histogram">>,
      <<"market_conditions", "macd_momentum">>, <<"market_conditions", "volume_ratio">>,
      <<"market_conditions", "volume_status">>>>

\* main, "ANÁLISIS DE TRANSICIÓN ENTRE VELAS": details['all_previous_met']
\* and details['all_current_met'] of the detected polarity
TransitionReads(signal_type) ==
    IF signal_type = BULLISH_SIGNAL
    THEN <<<<"bullish_analysis">>, <<"bullish_analysis", "all_previous_met">>,
           <<"bullish_analysis", "all_current_met">>>>
    ELSE IF signal_type = BEARISH_SIGNAL
    THEN <<<<"bearish_analysis">>, <<"bearish_analysis", "all_previous_met">>,
           <<"bearish_analysis", "all_current_met">>>>
    ELSE <<>>

\* Every read main makes of signals_result, in the order it makes them.
MainReads(signal_type) ==
    <<<<"signal_type">>>> \o ExplanationReads(signal_type) \o DetailReads(signal_type)
    \o MarketReads \o TransitionReads(signal_type)

\* d[k1][k2]... succeeds: every key on the path is in its dictionary.
RECURSIVE HasKey(_, _)
HasKey(d, path) ==
    /\ Head(path) \in DOMAIN d
    /\ Len(path) = 1 \/ HasKey(d[Head(path)], Tail(path))

\* main from line 86 on: it reads the result and logs the final result of
\* the cycle, unless a read raises KeyError, which the last except clause
\* logs as an unexpected error; an AnalysisError of analyze_signals goes to
\* the PhoenixError clause.
MainReport ==
    /\ last_op = "analyze_signals"
    /\ report.status = "none"
    /\ report' =
         IF signals_result.status = "raised"
         THEN [status |-> "phoenix_error", missing |-> {}, final |-> ""]
         ELSE LET result == signals_result.result
                  reads == MainReads(result.signal_type)
                  failed == {i \in 1..Len(reads) : ~HasKey(result, reads[i])}
              IN  IF failed = {}
                  THEN [status |-> "final", missing |-> {}, final |-> result.signal_type]
                  ELSE [status |-> "unexpected_error",
                        missing |-> {reads[CHOOSE i \in failed : \A j \in failed : i <= j]},
                        final |-> ""]
    /\ UNCHANGED <<signal_vars, enrich_vars, cycle_vars, config, fetch>>

\* main returns; the next run starts afresh.
MainEnd ==
    /\ report.status /= "none"
    /\ window' = EmptyWindow
    /\ signals_result' = NotCalled
    /\ log' = {}
    /\ last_op' = "idle"
    /\ report' = NoReport
    /\ UNCHANGED <<final_signal, events, enrich_vars, cycle_vars, config, fetch>>

NextMain ==
    \/ last_op = "idle" /\ \E df \in Windows : AnalyzeSignals(df)
    \/ MainReport
    \/ MainEnd

SpecMain == Init /\ [][NextMain]_vars

(***************************************************************************)
(* Enrichment, then the analysis of its last two rows (SpecTail)           *)
(***************************************************************************)

\* The frames enriched: one row more than the longest window, one row short
\* of the minimum length, and exactly the minimum length.
TailFrames(p) ==
    {Frame(OHLCV, TRUE, max_period(p) + 1, {}),
     Frame(OHLCV, TRUE, max_period(p) + SafetyMargin - 1, {}),
     Frame(OHLCV, TRUE, max_period(p) + SafetyMargin, {})}

\* A row of the enriched frame as the library left it: close and volume are
\* there, each indicator holds a value or is absent.
TailCandles ==
    [close : {2}, volume : {2}, EMA21 : {1, NaN}, RSI14 : {51, NaN},
     MACD_Histogram : {1, NaN}, Volume_Avg20 : {1, NaN}]

\* The last two rows of the enriched frame.
TailRows == {<<p, c>> : p \in TailCandles, c \in TailCandles}

NextTail ==
    \/ pc = "idle" /\ \E df \in TailFrames(params) :
           EnrichBegin(df) /\ UNCHANGED <<signal_vars, cycle_vars, pipeline_vars>>
    \/ EnrichValidate /\ UNCHANGED <<signal_vars, cycle_vars, pipeline_vars>>
    \/ \E outcome \in OneColumn("EMA_n") :
           CalculateEma(outcome) /\ UNCHANGED <<signal_vars, cycle_vars, pipeline_vars>>
    \/ \E outcome \in [{"RSI_n"} -> RsiOutcomes] :
           CalculateRsi(outcome) /\ UNCHANGED <<signal_vars, cycle_vars, pipeline_vars>>
    \/ \E outcome \in MacdOutcomesAlike :
           CalculateMacd(outcome) /\ UNCHANGED <<signal_vars, cycle_vars, pipeline_vars>>
    \/ CalculateVolumeAverage /\ UNCHANGED <<signal_vars, cycle_vars, pipeline_vars>>
    \/ EnrichValidateIndicators /\ UNCHANGED <<signal_vars, cycle_vars, pipeline_vars>>
    \/ EnrichmentCompleted /\ last_op = "idle" /\ \E rows \in TailRows : CycleAnalyze(rows)
    \/ CycleEnded /\ CycleEnd(FALSE)

SpecTail == InitEnrich /\ [][NextTail]_vars

(***************************************************************************)
(* The claims' own vocabulary, written from their statements               *)
(***************************************************************************)

\* Every field the predicates read is present on the candle.
FieldsPresent(c) == \A col \in required_columns : c[col] /= NaN

\* The four bullish predicates on a candle.
BullishSetHolds(c) ==
    /\ FieldsPresent(c)
    /\ c.close > c.EMA21
    /\ 30 <= c.RSI14 /\ c.RSI14 <= 50
    /\ c.MACD_Histogram > 0
    /\ c.volume > c.Volume_Avg20

\* The four bearish predicates on a candle.
BearishSetHolds(c) ==
    /\ FieldsPresent(c)
    /\ c.close < c.EMA21
    /\ 50 <= c.RSI14 /\ c.RSI14 <= 70
    /\ c.MACD_Histogram < 0
    /\ c.volume > c.Volume_Avg20

\* A window analyze_signals can evaluate: two candles or more, every required
\* column there, every field of the last two candles present.
Evaluable(df) ==
    /\ Len(df.rows) >= 2
    /\ required_columns \subseteq df.columns
    /\ FieldsPresent(df.rows[Len(df.rows)])
    /\ FieldsPresent(df.rows[Len(df.rows) - 1])

LastCandle == window.rows[Len(window.rows)]
SecondToLastCandle == window.rows[Len(window.rows) - 1]

AnalysisReturned == last_op = "analyze_signals" /\ signals_result.status = "returned"

BullishFires == BullishSetHolds(LastCandle) /\ ~BullishSetHolds(SecondToLastCandle)
BearishFires == BearishSetHolds(LastCandle) /\ ~BearishSetHolds(SecondToLastCandle)

C4_OnlyEntryEdge ==
    AnalysisReturned =>
        /\ ~BullishFires =>
               /\ ~signals_result.result.bullish_analysis.signal_detected
               /\ ~signals_result.result.bullish_analysis.transition_detected
               /\ signals_result.result.signal_type /= BULLISH_SIGNAL
        /\ ~BearishFires =>
               /\ ~signals_result.result.bearish_analysis.signal_detected
               /\ ~signals_result.result.bearish_analysis.transition_detected
               /\ signals_result.result.signal_type /= BEARISH_SIGNAL

\* Engaged -> Engaged: the bullish set met on both candles, and no signal.
C4_Witness ==
    /\ AnalysisReturned
    /\ BullishSetHolds(SecondToLastCandle)
    /\ BullishSetHolds(LastCandle)
    /\ signals_result.result.signal_type = NO_SIGNAL

(***************************************************************************)
(* C5: every evaluation cycle yields one signal_type: BULLISH_SIGNAL iff   *)
(* only the bullish transition fired, BEARISH_SIGNAL iff only the bearish  *)
(* one fired, NO_SIGNAL when neither or both fired.                         *)
(***************************************************************************)
C5_ResolutionPolicy ==
    AnalysisReturned =>
        /\ signals_result.result.signal_type \in SignalType
        /\ signals_result.result.signal_type = BULLISH_SIGNAL
               <=> (BullishFires /\ ~BearishFires)
        /\ signals_result.result.signal_type = BEARISH_SIGNAL
               <=> (BearishFires /\ ~BullishFires)
        /\ signals_result.result.signal_type = NO_SIGNAL
               <=> (BullishFires <=> BearishFires)

C5_Witness ==
    /\ AnalysisReturned
    /\ signals_result.result.signal_type = BEARISH_SIGNAL
    /\ ~signals_result.result.bullish_analysis.signal_detected
    /\ BullishSetHolds(SecondToLastCandle)

(***************************************************************************)
(* C7: the RSI bands are closed on both sides: RSI 30 and 50 satisfy the   *)
(* bullish band, 50 and 70 the bearish band, 29 and 71 neither; with RSI   *)
(* exactly 50 on the current candle, the other conditions of a polarity    *)
(* true and the previous candle not meeting the set, that polarity fires.  *)
(***************************************************************************)
C7_ClosedRsiBands ==
    AnalysisReturned =>
        LET r == signals_result.result
            rsi == LastCandle.RSI14
        IN  /\ rsi \in {30, 50} => r.bullish_analysis.current_conditions.rsi_in_range
            /\ rsi \in {50, 70} => r.bearish_analysis.current_conditions.rsi_in_range
            /\ rsi \in {29, 71} =>
                   /\ ~r.bullish_analysis.current_conditions.rsi_in_range
                   /\ ~r.bearish_analysis.current_conditions.rsi_in_range
            /\ rsi = 29 => ~r.bearish_analysis.current_conditions.rsi_in_range
            /\ ( /\ rsi = 50
                 /\ LastCandle.close > LastCandle.EMA21
                 /\ LastCandle.MACD_Histogram > 0
                 /\ LastCandle.volume > LastCandle.Volume_Avg20
                 /\ ~BullishSetHolds(SecondToLastCandle) )
               => /\ r.bullish_analysis.signal_detected
                  /\ r.signal_type = BULLISH_SIGNAL
            /\ ( /\ rsi = 50
                 /\ LastCandle.close < LastCandle.EMA21
                 /\ LastCandle.MACD_Histogram < 0
                 /\ LastCandle.volume > LastCandle.Volume_Avg20
                 /\ ~BearishSetHolds(SecondToLastCandle) )
               => /\ r.bearish_analysis.signal_detected
                  /\ r.signal_type = BEARISH_SIGNAL

\* RSI exactly 50, previous candle with no bullish condition met: bullish fires.
C7_Witness ==
    /\ AnalysisReturned
    /\ LastCandle.RSI14 = 50
    /\ signals_result.result.signal_type = BULLISH_SIGNAL
    /\ \A k \in DOMAIN signals_result.result.bullish_analysis.previous_conditions :
           ~signals_result.result.bullish_analysis.previous_conditions[k]

(***************************************************************************)
(* C3: no double fire. With one cycle per candle of the growing series,    *)
(* every run of consecutive candles on which the bullish set holds, coming *)
(* after a candle (every field present) on which it does not, yields       *)
(* exactly one BULLISH_SIGNAL, at the first candle of the run; no other    *)
(* cycle yields one.                                                        *)
(***************************************************************************)
RunStartsAt(a) ==
    /\ a >= 2 /\ a <= Len(window.rows)
    /\ BullishSetHolds(window.rows[a])
    /\ FieldsPresent(window.rows[a - 1])
    /\ ~BullishSetHolds(window.rows[a - 1])

RunFromTo(a, b) ==
    /\ RunStartsAt(a) /\ a <= b /\ b <= Len(window.rows)
    /\ \A j \in a..b : BullishSetHolds(window.rows[j])

ConflictResolved ==
    /\ last_op = "_determine_final_signal"
    /\ window.rows = <<TRUE, TRUE>>

MinimumRows ==
    LET periods == {params.ema_period, params.rsi_period,
                    params.macd_slow + params.macd_signal, params.volume_avg_period}
    IN  (CHOOSE m \in periods : \A x \in periods : m >= x) + 10

\* The call's input has all OHLCV columns and a DatetimeIndex.
WellShaped == OHLCV \subseteq snapshot.columns /\ snapshot.datetime_index

\* A fatal condition of the input.
FatalInput ==
    \/ ~(OHLCV \subseteq snapshot.columns)
    \/ ~snapshot.datetime_index
    \/ snapshot.nrows < MinimumRows
    \/ snapshot.nulls /= {}

\* The indicator step that asks the library for a column.
StepOf(column) ==
    CASE column = "EMA_n" -> "ema"
      [] column = "RSI_n" -> "rsi"
      [] column \in {"MACD_f_s_g", "MACDh_f_s_g", "MACDs_f_s_g"} -> "macd"
      [] column = "Volume_Avg20" -> "volume_average"

(***************************************************************************)
(* C8 as stated: enrich_dataframe on a frame with all OHLCV columns and a  *)
(* DatetimeIndex but fewer rows than the minimum raises                    *)
(* InsufficientDataError to the caller.                                     *)
(***************************************************************************)
C8_RaisesInsufficientDataError ==
    (pc \in {"raised", "returned"} /\ WellShaped /\ snapshot.nrows < MinimumRows) =>
        /\ enrich_result.status = "raised"
        /\ enrich_result.exception = "InsufficientDataError"

\* What the code does there: AnalysisError, raised from InsufficientDataError.
C8_RaisesAnalysisError ==
    (pc \in {"raised", "returned"} /\ WellShaped /\ snapshot.nrows < MinimumRows) =>
        /\ enrich_result.status = "raised"
        /\ enrich_result.exception = "AnalysisError"
        /\ enrich_result.cause = "InsufficientDataError"
        /\ steps = <<>>

\* max_period + 5 rows under the default periods.
C8_Witness ==
    /\ pc = "raised"
    /\ params = DefaultParams
    /\ WellShaped
    /\ snapshot.nulls = {}
    /\ snapshot.nrows = MinimumRows - 5

(***************************************************************************)
(* C9: every fatal condition of enrich_dataframe (missing OHLCV column,    *)
(* non-datetime index, too few rows, a null in an OHLCV column, an         *)
(* indicator column missing after its computation) ends the call with an   *)
(* exception before any later indicator is computed, and no frame is       *)
(* returned.                                                                *)
(***************************************************************************)
C9_FatalAborts ==
    /\ steps = SubSeq(StepOrder, 1, Len(steps))
    /\ (FatalInput /\ pc \notin {"idle", "validate"}) => (pc = "raised" /\ steps = <<>>)
    /\ \A column \in DOMAIN lib :
           lib[column] = "missing" =>
               /\ pc = "raised"
               /\ steps[Len(steps)] = StepOf(column)
    /\ pc = "raised" =>
           /\ enrich_result.status = "raised"
           /\ enrich_result.result = <<>>
    /\ enrich_result.status = "returned" =>
           /\ pc = "returned"
           /\ ~FatalInput
           /\ \A column \in DOMAIN lib : lib[column] /= "missing"
           /\ steps = StepOrder
    /\ pc \notin {"raised", "returned"} => enrich_result.status = "none"

\* The RSI column is missing after its computation: MACD never runs.
C9_Witness ==
    /\ pc = "raised"
    /\ ~FatalInput
    /\ "RSI_n" \in DOMAIN lib
    /\ lib["RSI_n"] = "missing"
    /\ steps = <<"ema", "rsi">>
    /\ enrich_result.status = "raised"

(***************************************************************************)
(* C10: enrich_dataframe never mutates the caller's frame: from the call   *)
(* on, whether it returns or raises, the caller's frame has the rows,      *)
(* columns and values it had when the call began.                           *)
(***************************************************************************)
C10_InputNotMutated ==
    pc /= "idle" => frames[CallerFrame] = snapshot

\* The call returned a frame with the six indicators; the input has none.
C10_Witness ==
    /\ pc = "returned"
    /\ enrich_result.status = "returned"
    /\ IndicatorColumns \subseteq frames[enrich_result.result].columns
    /\ frames[CallerFrame] = snapshot
    /\ frames[CallerFrame].columns = OHLCV

(***************************************************************************)
(* C11 as stated: enrich_dataframe returns no result when the input lacks  *)
(* an OHLCV column, when its time index is not increasing, or when the     *)
(* index holds a timestamp twice.                                           *)
(***************************************************************************)
ShapeError ==
    \/ ~(OHLCV \subseteq snapshot.columns)
    \/ snapshot.index_order = "unordered"
    \/ snapshot.index_order = "duplicates"

C11_ShapeErrorFails ==
    ShapeError => enrich_result.status /= "returned"

(***************************************************************************)
(* C11 amended: enrich_dataframe returns no result when the input lacks an *)
(* OHLCV column or its index is not a DatetimeIndex: it raises before any  *)
(* indicator is computed. The order of the timestamps is not examined: an  *)
(* input with all OHLCV columns without nulls, a DatetimeIndex and enough  *)
(* rows passes validation whether its index is increasing, out of order or *)
(* holds duplicates.                                                        *)
(***************************************************************************)
C11_ShapeChecked ==
    /\ (pc \notin {"idle", "validate"}
            /\ (~(OHLCV \subseteq snapshot.columns) \/ ~snapshot.datetime_index))
           => /\ pc = "raised"
              /\ steps = <<>>
              /\ enrich_result.status = "raised"
    /\ (pc = "raised" /\ steps = <<>>) => FatalInput

\* A frame whose index holds duplicates is enriched and returned; so would be
\* one with the index out of order.
C11_Witness ==
    /\ pc = "returned"
    /\ enrich_result.status = "returned"
    /\ snapshot.index_order = "duplicates"
    /\ snapshot.datetime_index

(***************************************************************************)
(* C12: whenever enrich_dataframe returns, the frame it returns has the    *)
(* six indicator columns and each has a valid value among its last 10      *)
(* rows; when a computed indicator has no valid value in the last 10 rows  *)
(* the call raises and returns nothing.                                     *)
(***************************************************************************)
AddedFields == {"EMA21", "RSI14", "MACD", "MACD_Signal", "MACD_Histogram", "Volume_Avg20"}

\* An indicator came out of its computation with its last 10 rows all NaN.
SomeFieldAbsentOnTail == \E column \in DOMAIN lib : lib[column] = "nan"

C12_TailPopulated ==
    /\ enrich_result.status = "returned" =>
           /\ AddedFields \subseteq frames[enrich_result.result].columns
           /\ AddedFields \cap frames[enrich_result.result].nan_tail = {}
           /\ ~SomeFieldAbsentOnTail
    /\ (SomeFieldAbsentOnTail /\ pc \in {"raised", "returned"}) =>
           /\ pc = "raised"
           /\ enrich_result.status = "raised"
           /\ enrich_result.result = <<>>

\* The EMA is all NaN on the last 10 rows, every other indicator is valid:
\* the four computations run and the final validation raises.
C12_Witness ==
    /\ pc = "raised"
    /\ steps = StepOrder
    /\ DOMAIN lib = {"EMA_n", "RSI_n", "MACD_f_s_g", "MACDh_f_s_g", "MACDs_f_s_g", "Volume_Avg20"}
    /\ \A column \in DOMAIN lib : lib[column] = (IF column = "EMA_n" THEN "nan" ELSE "ok")
    /\ "EMA21" \in frames[CopiedFrame].nan_tail

(***************************************************************************)
(* C13: an RSI value outside [0, 100] is not fatal. It makes               *)
(* enrich_dataframe log a warning and nothing else: when the input is      *)
(* acceptable and every indicator is computed with valid values in its     *)
(* last rows, the call returns the enriched frame, whose RSI column still  *)
(* holds the out-of-range value. No call raises because of it, and the     *)
(* warning is logged for no other reason.                                   *)
(***************************************************************************)
RsiOutOfRange == "RSI_n" \in DOMAIN lib /\ lib["RSI_n"] = "out_of_range"

RangeWarning == "Valores RSI fuera de rango"

\* Some indicator failed to compute or is NaN on the whole tail.
OtherFailure == \E column \in DOMAIN lib : lib[column] \in {"missing", "nan"}

C13_RangeWarningOnly ==
    /\ (RsiOutOfRange /\ pc \in {"raised", "returned"} /\ ~OtherFailure) =>
           /\ pc = "returned"
           /\ enrich_result.status = "returned"
           /\ "RSI14" \in frames[enrich_result.result].out_of_range
           /\ "RSI14" \notin frames[enrich_result.result].nan_tail
           /\ RangeWarning \in engine_log
    /\ pc = "raised" => (FatalInput \/ OtherFailure)
    /\ RangeWarning \in engine_log => (RsiOutOfRange /\ pc = "returned")

C13_Witness ==
    /\ pc = "returned"
    /\ RsiOutOfRange
    /\ engine_log = {RangeWarning}
    /\ "RSI14" \in frames[CopiedFrame].out_of_range
    /\ frames[CallerFrame] = snapshot

(***************************************************************************)
(* C14: the market snapshot puts the current candle's RSI in exactly one   *)
(* zone: OVERSOLD iff rsi < 30, NEUTRAL_BEARISH iff 30 <= rsi <= 50,       *)
(* NEUTRAL_BULLISH iff 50 < rsi <= 70, OVERBOUGHT iff rsi > 70.            *)
(***************************************************************************)
Snapshot == signals_result.result.market_conditions

C14_RsiZones ==
    AnalysisReturned =>
        LET rsi == LastCandle.RSI14
            zone == Snapshot.rsi_zone
        IN  /\ Snapshot.rsi_value = rsi
            /\ zone \in {"OVERSOLD", "NEUTRAL_BEARISH", "NEUTRAL_BULLISH", "OVERBOUGHT"}
            /\ zone = "OVERSOLD" <=> rsi < 30
            /\ zone = "NEUTRAL_BEARISH" <=> (30 <= rsi /\ rsi <= 50)
            /\ zone = "NEUTRAL_BULLISH" <=> (50 < rsi /\ rsi <= 70)
            /\ zone = "OVERBOUGHT" <=> rsi > 70

\* RSI exactly 50 is NEUTRAL_BEARISH.
C14_Witness ==
    /\ AnalysisReturned
    /\ LastCandle.RSI14 = 50
    /\ Snapshot.rsi_zone = "NEUTRAL_BEARISH"

(***************************************************************************)
(* C15: the market snapshot of the current candle reports ABOVE iff        *)
(* close > EMA (BELOW otherwise, equality included), POSITIVE iff the MACD *)
(* histogram > 0 (NEGATIVE otherwise, zero included), HIGH iff             *)
(* volume / volume average > 1 (LOW otherwise); with a positive volume     *)
(* average HIGH is reported exactly when the candle's                      *)
(* volume_above_average condition is true.                                  *)
(***************************************************************************)
C15_SnapshotMapping ==
    AnalysisReturned =>
        LET c == LastCandle
        IN  /\ Snapshot.price_vs_ema \in {"ABOVE", "BELOW"}
            /\ Snapshot.price_vs_ema = "ABOVE" <=> c.close > c.EMA21
            /\ Snapshot.macd_momentum \in {"POSITIVE", "NEGATIVE"}
            /\ Snapshot.macd_momentum = "POSITIVE" <=> c.MACD_Histogram > 0
            /\ Snapshot.volume_status \in {"HIGH", "LOW"}
            /\ c.Volume_Avg20 > 0 =>
                   /\ Snapshot.volume_status = "HIGH" <=> c.volume > 1 * c.Volume_Avg20
                   /\ Snapshot.volume_status = "HIGH" <=>
                          signals_result.result.bullish_analysis
                              .current_conditions.volume_above_average
                   /\ Snapshot.volume_status = "HIGH" <=>
                          signals_result.result.bearish_analysis
                              .current_conditions.volume_above_average

\* Equality on the three comparisons: BELOW, NEGATIVE and LOW.
C15_Witness ==
    /\ AnalysisReturned
    /\ LastCandle.close = LastCandle.EMA21
    /\ LastCandle.MACD_Histogram = 0
    /\ LastCandle.volume = LastCandle.Volume_Avg20
    /\ Snapshot.price_vs_ema = "BELOW"
    /\ Snapshot.macd_momentum = "NEGATIVE"
    /\ Snapshot.volume_status = "LOW"

(***************************************************************************)
(* C16: the signal decision depends only on the last two candles: two      *)
(* frames accepted by analyze_signals whose last two rows agree on close,  *)
(* volume, EMA21, RSI14, MACD_Histogram and Volume_Avg20 get the same      *)
(* signal_type, whatever their earlier rows are.                            *)
(***************************************************************************)
SignalFields == {"close", "volume", "EMA21", "RSI14", "MACD_Histogram", "Volume_Avg20"}

SameLastTwo(w1, w2) ==
    /\ Len(w1.rows) >= 2
    /\ Len(w2.rows) >= 2
    /\ \A back \in {0, 1} : \A field \in SignalFields :
           w1.rows[Len(w1.rows) - back][field] = w2.rows[Len(w2.rows) - back][field]

BothAccepted ==
    /\ remembered.ended
    /\ remembered.signals_result.status = "returned"
    /\ AnalysisReturned

C16_LastTwoDecide ==
    (BothAccepted /\ SameLastTwo(remembered.window, window)) =>
        signals_result.result.signal_type = remembered.signals_result.result.signal_type

\* Two windows of three rows, the first rows differing in the bullish set,
\* the last two equal: BULLISH_SIGNAL for both.
C16_Witness ==
    /\ BothAccepted
    /\ SameLastTwo(remembered.window, window)
    /\ Len(window.rows) = 3
    /\ Len(remembered.window.rows) = 3
    /\ BullishSetHolds(window.rows[1])
    /\ ~BullishSetHolds(remembered.window.rows[1])
    /\ signals_result.result.signal_type = BULLISH_SIGNAL
    /\ remembered.signals_result.result.signal_type = BULLISH_SIGNAL

(***************************************************************************)
(* C17: the engines hold no cross-call state. Whatever cycles ran before   *)
(* on the same engine objects, returning or raising, the periods of the    *)
(* engine are what its construction loaded; enrich_dataframe on the input  *)
(* of an earlier call, the library computing the same columns, ends as     *)
(* that call ended, with the same frame; analyze_signals on the window of  *)
(* an earlier call gives the result of that call.                           *)
(***************************************************************************)
EnrichEnded == pc \in {"raised", "returned"}

C17_NoCrossCallState ==
    /\ params = DefaultParams
    /\ (remembered.ended /\ EnrichEnded
            /\ remembered.input = snapshot /\ remembered.lib = lib) =>
           /\ enrich_result.status = remembered.enrich_result.status
           /\ enrich_result.exception = remembered.enrich_result.exception
           /\ enrich_result.cause = remembered.enrich_result.cause
           /\ frames[enriched_df] = remembered.output
    /\ (remembered.ended /\ last_op = "analyze_signals"
            /\ remembered.signals_result.status /= "none"
            /\ remembered.window = window) =>
           signals_result = remembered.signals_result

\* The same input enriched and the same window analysed as in an earlier
\* cycle: the same frame, the same BEARISH_SIGNAL.
C17_Witness ==
    /\ remembered.ended
    /\ last_op = "analyze_signals"
    /\ remembered.input = snapshot
    /\ remembered.output = frames[enriched_df]
    /\ remembered.window = window
    /\ signals_result.status = "returned"
    /\ signals_result = remembered.signals_result
    /\ signals_result.result.signal_type = BEARISH_SIGNAL

(***************************************************************************)
(* C19: within a cycle analyze_signals starts only after enrich_dataframe  *)
(* returned, that is after EMA, RSI, MACD and the volume average were      *)
(* computed, in this order, and validated; and analyze_signals evaluates   *)
(* the conditions only when every required column is there and non-null on *)
(* the last two rows: otherwise it raises.                                  *)
(***************************************************************************)
C19_EnrichmentFirst ==
    /\ last_op = "analyze_signals" =>
           /\ pc = "returned"
           /\ enrich_result.status = "returned"
           /\ steps = <<"ema", "rsi", "macd", "volume_average">>
           /\ AddedFields \subseteq frames[enrich_result.result].columns
           /\ AddedFields \cap frames[enrich_result.result].nan_tail = {}
           /\ window.columns = frames[enrich_result.result].columns
           /\ signals_result.status = "returned" => Evaluable(window)
           /\ ~Evaluable(window) =>
                  /\ signals_result.status = "raised"
                  /\ signals_result.result = <<>>
    /\ pc /= "returned" =>
           /\ last_op = "idle"
           /\ signals_result.status = "none"

\* The four indicators computed, then a bullish signal detected.
C19_Witness ==
    /\ last_op = "analyze_signals"
    /\ steps = StepOrder
    /\ pc = "returned"
    /\ signals_result.status = "returned"
    /\ signals_result.result.signal_type = BULLISH_SIGNAL
    /\ signals_result.result.bullish_analysis.transition_detected

(***************************************************************************)
(* C18: two invocations of the pipeline on independent frames, interleaved *)
(* in any way, each end as they would alone: the frame an invocation       *)
(* returns is its own input with the six indicators the library computed   *)
(* for it, its caller's frame is untouched, the window it analyses is that *)
(* frame, and it raises only for a defect of its own input or indicators;  *)
(* and no step of the running invocation writes the frames or the locals   *)
(* of the other.                                                            *)
(***************************************************************************)
FatalFrame(f) ==
    \/ ~(OHLCV \subseteq f.columns)
    \/ ~f.datetime_index
    \/ f.nrows < MinimumRows
    \/ f.nulls /= {}

\* What enrich_dataframe returns for an input when it runs alone.
AloneFrame(input, outcomes) ==
    [input EXCEPT
        !.columns = @ \cup AddedFields,
        !.out_of_range = IF outcomes["RSI_n"] = "out_of_range" THEN {"RSI14"} ELSE {},
        !.holds = [c \in AddedFields |->
                      CASE c = "EMA21" -> "EMA_n"
                        [] c = "RSI14" -> "RSI_n"
                        [] c = "MACD" -> "MACD_f_s_g"
                        [] c = "MACD_Signal" -> "MACDs_f_s_g"
                        [] c = "MACD_Histogram" -> "MACDh_f_s_g"
                        [] c = "Volume_Avg20" -> "Volume_Avg20"]]

\* Invocation t, with locals l, stands as it would had it run alone.
AsAlone(t, l) ==
    /\ l.pc /= "idle" => frames[1 + 2 * t] = l.snapshot
    /\ l.enrich_result.status = "returned" =>
           /\ ~FatalFrame(l.snapshot)
           /\ \A column \in DOMAIN l.lib : l.lib[column] \in {"ok", "out_of_range"}
           /\ frames[l.enrich_result.result] = AloneFrame(l.snapshot, l.lib)
    /\ l.enrich_result.status = "raised" =>
           \/ FatalFrame(l.snapshot)
           \/ \E column \in DOMAIN l.lib : l.lib[column] \in {"missing", "nan"}
    /\ l.last_op = "analyze_signals" =>
           /\ l.enrich_result.status = "returned"
           /\ l.window.columns = l.snapshot.columns \cup AddedFields
           /\ l.signals_result.status = "returned" <=> Evaluable(l.window)

\* A step of the running invocation leaves the other's frames and locals.
NoWriteToOther ==
    thread' = thread =>
        /\ suspended' = suspended
        /\ frames'[1 + 2 * (1 - thread)] = frames[1 + 2 * (1 - thread)]
        /\ frames'[2 + 2 * (1 - thread)] = frames[2 + 2 * (1 - thread)]

C18_Isolated ==
    /\ [](AsAlone(thread, Locals) /\ AsAlone(1 - thread, suspended))
    /\ [][NoWriteToOther]_vars

\* One invocation has analysed its frame while the other, on a longer
\* frame, is between its RSI and its MACD.
C18_Witness ==
    /\ last_op = "analyze_signals"
    /\ signals_result.status = "returned"
    /\ suspended.pc = "macd"
    /\ suspended.snapshot.nrows > snapshot.nrows
    /\ frames[enrich_result.result] /= frames[suspended.enriched_df]

(***************************************************************************)
(* C21: in the frame enrich_dataframe returns the three MACD columns are   *)
(* there together, 'MACD' holds the library's line, 'MACD_Signal' its      *)
(* signal and 'MACD_Histogram' its histogram, so that MACD_Histogram       *)
(* equals MACD - MACD_Signal on every row where the library defines both;  *)
(* a frame with only some of the three never gets past the MACD step.      *)
(***************************************************************************)
\* Values of the library's line and signal on a row.
MacdLineValues == {-2, 0, 1, 3}
MacdSignalValues == {-1, 0, 2}

\* The library's three series on a row with line l and signal g: its
\* histogram is the line minus the signal.
LibraryMacd(series, l, g) ==
    CASE series = "MACD_f_s_g" -> l
      [] series = "MACDs_f_s_g" -> g
      [] series = "MACDh_f_s_g" -> l - g

MacdFields == {"MACD", "MACD_Signal", "MACD_Histogram"}

AfterMacd == pc \in {"volume_average", "validate_indicators", "returned"}

C21_MacdColumns ==
    /\ AfterMacd =>
           LET df == frames[enriched_df]
               cell(column, l, g) == LibraryMacd(df.holds[column], l, g)
           IN  /\ MacdFields \subseteq df.columns
               /\ df.columns \cap {"MACD_f_s_g", "MACDs_f_s_g", "MACDh_f_s_g"} = {}
               /\ df.holds["MACD"] = "MACD_f_s_g"
               /\ df.holds["MACD_Signal"] = "MACDs_f_s_g"
               /\ df.holds["MACD_Histogram"] = "MACDh_f_s_g"
               /\ \A l \in MacdLineValues, g \in MacdSignalValues :
                      cell("MACD_Histogram", l, g)
                          = cell("MACD", l, g) - cell("MACD_Signal", l, g)
    /\ (pc \notin {"idle", "validate"}
            /\ MacdFields \cap frames[enriched_df].columns /= {}) =>
           MacdFields \subseteq frames[enriched_df].columns
    /\ (\E column \in DOMAIN lib :
            column \in {"MACD_f_s_g", "MACDs_f_s_g", "MACDh_f_s_g"}
                /\ lib[column] = "missing") =>
           /\ pc = "raised"
           /\ MacdFields \cap frames[enriched_df].columns = {}

\* The call returned: the three columns are in the frame under their names.
C21_Witness ==
    /\ pc = "returned"
    /\ enrich_result.status = "returned"
    /\ MacdFields \subseteq frames[enrich_result.result].columns
    /\ frames[enrich_result.result].holds["MACD_Histogram"] = "MACDh_f_s_g"

\* C22: every indicator parameter the analysis engine uses is a strictly
\* positive integer and macd_fast < macd_slow, whatever the configuration
\* file holds.
C22_ParametersValid ==
    /\ \A k \in ConfigKeys : params[k] \in Nat \ {0}
    /\ params.macd_fast < params.macd_slow

\* C22, the part that holds: a missing or non-integer entry yields the
\* default 21, 14, 12, 26, 9, 20 of its key, and an integer entry yields
\* that integer.
C22_DefaultsOnly ==
    \A k \in ConfigKeys :
        /\ config[k] \in {Missing, NotAnInteger} => params[k] = DefaultParams[k]
        /\ config[k].kind = "int" => params[k] = config[k].value

\* The engine accepted a frame while working with a period that is not
\* positive.
C22_Witness ==
    /\ pc = "ema"
    /\ \E k \in ConfigKeys : params[k] <= 0

\* The series fetch_ohlcv_data handed to its caller.
FetchedSeries == fetch.result.result

FetchReturned == fetch.status = "returned" /\ fetch.result.status = "returned"

\* The cadence a timeframe string asks for, in units of six seconds.
Cadence(timeframe) ==
    CASE timeframe = "1h" -> 600
      [] timeframe = "2h" -> 2 * 600
      [] timeframe = "3h" -> 3 * 600

\* The timeframes whose cadence the connector knows.
KnownTimeframes ==
    {"1m", "5m", "15m", "30m", "1h", "2h", "4h", "6h", "8h", "12h", "1d", "3d", "1w"}

\* The candle invariants: no empty cell, every price positive, the high the
\* largest and the low the smallest of the four prices.
CandleInvariant(row) ==
    /\ \A col \in DOMAIN row : row[col] /= NaN
    /\ \A col \in {"open", "high", "low", "close"} : row[col] > 0
    /\ \A col \in {"open", "close", "low"} : row.high >= row[col]
    /\ \A col \in {"open", "close", "high"} : row.low <= row[col]

\* Timestamps strictly increasing, hence without duplicates.
StrictlyIncreasing(index) ==
    \A i \in 1..Len(index) : \A j \in 1..Len(index) : i < j => index[i] < index[j]

\* Every distance between neighbours is within a tenth of the cadence.
GapsWithinTenth(index, cadence) ==
    \A i \in 1..(Len(index) - 1) :
        /\ 10 * (index[i + 1] - index[i]) >= 9 * cadence
        /\ 10 * (index[i + 1] - index[i]) <= 11 * cadence

C24_RaisesInsufficientDataError ==
    (last_op = "analyze_signals" /\ Len(window.rows) < 2) =>
        /\ signals_result.status = "raised"
        /\ signals_result.exception = "InsufficientDataError"

\* What the code does there: AnalysisError, raised from InsufficientDataError.
C24_RaisesAnalysisError ==
    (last_op = "analyze_signals" /\ Len(window.rows) < 2) =>
        /\ signals_result.status = "raised"
        /\ signals_result.exception = "AnalysisError"
        /\ signals_result.cause = "InsufficientDataError"

\* A series of one row, every field present, was analysed.
C24_Witness ==
    /\ last_op = "analyze_signals"
    /\ Len(window.rows) = 1
    /\ FieldsPresent(window.rows[1])
    /\ signals_result.status = "raised"

FetchEnded == fetch.status \in {"returned", "raised"}

\* C25 as stated: when what the exchange returned fails _validate_ohlcv_data,
\* fetch_ohlcv_data raises DataValidationError to its caller and makes no
\* further request.
C25_RaisesDataValidationError ==
    "DataValidationError" \in fetch.seen =>
        /\ fetch.status = "raised"
        /\ fetch.result.exception = "DataValidationError"
        /\ fetch.requests = 1

\* What the code does there: the failed validation is retried like an
\* unexpected error, and the call ends in ExchangeConnectionError when the
\* last attempt fails validation too.
C25_ValidationRetried ==
    (fetch.last = "DataValidationError") =>
        /\ fetch.status = "attempt" <=> fetch.requests <= fetch.max_retries
        /\ fetch.status = "raised" <=> fetch.requests = fetch.max_retries + 1
        /\ fetch.status = "raised" => fetch.result = Raised("ExchangeConnectionError", "DataValidationError")
        /\ Len(fetch.sleeps) = fetch.attempt

\* Every one of four requests returned data that failed validation.
C25_Witness ==
    /\ fetch.status = "raised"
    /\ fetch.seen = {"DataValidationError"}
    /\ fetch.requests = 4
    /\ fetch.result.exception = "ExchangeConnectionError"

\* C26: a ccxt.ExchangeError is never retried: the call raises
\* ExchangeConnectionError at its first occurrence, at any attempt, with no
\* sleep after it and no further request.
C26_ExchangeErrorNotRetried ==
    "ExchangeError" \in fetch.seen =>
        /\ fetch.status = "raised"
        /\ fetch.last = "ExchangeError"
        /\ fetch.result.exception = "ExchangeConnectionError"
        /\ fetch.requests = fetch.attempt + 1
        /\ Len(fetch.sleeps) = fetch.requests - 1

\* The exchange error came at the third of six allowed attempts.
C26_Witness ==
    /\ "ExchangeError" \in fetch.seen
    /\ fetch.max_retries = 5
    /\ fetch.requests = 3

\* C27, the counts: at most max_retries + 1 requests and max_retries sleeps,
\* a sleep only between two attempts, each sleep between 1 and 60 seconds;
\* rate limits at every attempt end in RateLimitError and network errors at
\* every attempt in ExchangeConnectionError.
C27_Bounded ==
    /\ fetch.requests <= fetch.max_retries + 1
    /\ Len(fetch.sleeps) <= fetch.max_retries
    /\ \A i \in 1..Len(fetch.sleeps) : fetch.sleeps[i] >= 1 /\ fetch.sleeps[i] <= 60
    /\ fetch.status = "attempt" => Len(fetch.sleeps) = fetch.requests
    /\ FetchEnded => Len(fetch.sleeps) = fetch.requests - 1
    /\ (FetchEnded /\ fetch.seen = {"RateLimitExceeded"}) =>
           /\ fetch.requests = fetch.max_retries + 1
           /\ fetch.result = Raised("RateLimitError", "RateLimitExceeded")
    /\ (FetchEnded /\ fetch.seen = {"NetworkError"}) =>
           /\ fetch.requests = fetch.max_retries + 1
           /\ fetch.result = Raised("ExchangeConnectionError", "NetworkError")

\* C27: for max_retries >= 0 fetch_ohlcv_data always terminates, within the
\* counts above.
C27_Terminates ==
    /\ []C27_Bounded
    /\ (fetch.status = "attempt") ~> FetchEnded

\* Seven sleeps, the last capped at 60 seconds, before the eighth attempt hit
\* the rate limit too.
C27_Witness ==
    /\ fetch.status = "raised"
    /\ fetch.seen = {"RateLimitExceeded"}
    /\ Len(fetch.sleeps) = 7
    /\ fetch.sleeps[7] = 60

\* C28: a simultaneous bullish and bearish signal is impossible: on no pair
\* of adjacent enriched candles do _check_bullish_signal and
\* _check_bearish_signal both report a detected signal, so analyze_signals
\* never takes the conflict branch of _determine_final_signal: it logs no
\* conflict, and its NO_SIGNAL means that neither check detected a signal.
C28_NeverBothDetected ==
    AnalysisReturned =>
        /\ ~(/\ signals_result.result.bullish_analysis.signal_detected
             /\ signals_result.result.bearish_analysis.signal_detected)
        /\ ~(BullishFires /\ BearishFires)
        /\ log = {}
        /\ signals_result.result.signal_type = NO_SIGNAL =>
               /\ ~signals_result.result.bullish_analysis.signal_detected
               /\ ~signals_result.result.bearish_analysis.signal_detected

\* The nearest the two come: the previous candle met the bearish set and the
\* current one meets the bullish set.
C28_Witness ==
    /\ AnalysisReturned
    /\ BearishSetHolds(SecondToLastCandle)
    /\ BullishSetHolds(LastCandle)
    /\ signals_result.result.signal_type = BULLISH_SIGNAL

MainReported == report.status /= "none" /\ signals_result.status = "returned"

\* C29 as stated: whatever signal_type analyze_signals returned, main reaches
\* its final report, logging the final result of the cycle, and every key it
\* reads exists in the result.
C29_ReachesFinalReport ==
    MainReported =>
        /\ report.status = "final"
        /\ report.final = signals_result.result.signal_type
        /\ report.missing = {}

\* What the code does: the final report is reached exactly when there is no
\* signal; with a signal, the read of 'all_previous_met' from the details of
\* the detected polarity fails and main ends in its unexpected-error handler.
C29_FinalReportWithoutSignalOnly ==
    MainReported =>
        IF signals_result.result.signal_type = NO_SIGNAL
        THEN report = [status |-> "final", missing |-> {}, final |-> NO_SIGNAL]
        ELSE /\ report.status = "unexpected_error"
             /\ report.final = ""
             /\ \E polarity \in {"bullish_analysis", "bearish_analysis"} :
                    report.missing = {<<polarity, "all_previous_met">>}

\* A bullish signal was analysed and main ended in the unexpected-error
\* handler.
C29_Witness ==
    /\ MainReported
    /\ signals_result.result.signal_type = BULLISH_SIGNAL
    /\ report.status = "unexpected_error"

\* The warm-ups as specified: the index of the first row on which a field is
\* defined. EMA and volume average from index period - 1, RSI once period
\* deltas exist, the MACD signal (and with it the histogram) only after
\* macd_slow + macd_signal candles; close and volume on every row.
DefinedFrom(field, p) ==
    CASE field = "EMA21" -> p.ema_period - 1
      [] field = "Volume_Avg20" -> p.volume_avg_period - 1
      [] field = "RSI14" -> p.rsi_period
      [] field = "MACD_Histogram" -> p.macd_slow + p.macd_signal
      [] OTHER -> 0

\* The index in the enriched frame of the k-th of the two analysed rows.
TailIndex(k) == frames[enriched_df].nrows - 3 + k

\* The two analysed rows are as the warm-ups make them: a field is absent on
\* a row exactly when the row comes before the field's first defined index.
TailAsSpecified ==
    /\ Len(window.rows) = 2
    /\ \A k \in 1..2 : \A field \in required_columns :
           window.rows[k][field] /= NaN <=> TailIndex(k) >= DefinedFrom(field, params)

AnalysedAfterEnrichment == pc = "returned" /\ last_op = "analyze_signals"

\* C30: a series enrich_dataframe accepts, with the indicator warm-ups as
\* specified, yields an enriched series whose last two rows have every
\* required indicator field non-absent, and analyze_signals on it does not
\* fail its input validation.
C30_TailNonAbsent ==
    (AnalysedAfterEnrichment /\ TailAsSpecified) =>
        /\ \A k \in 1..2 : FieldsPresent(window.rows[k])
        /\ signals_result.status = "returned"

\* A frame of exactly the minimum length under the default periods was
\* enriched and its last two rows analysed.
C30_Witness ==
    /\ AnalysedAfterEnrichment
    /\ TailAsSpecified
    /\ params = DefaultParams
    /\ frames[enriched_df].nrows = MinimumRows
    /\ signals_result.status = "returned"

====
